---- MODULE Spec2Model ----
(***************************************************************************)
(* flex-ether: RPC client, confirmation tracker, name resolver and the     *)
(* transaction construction pipeline, modelled as state machines.          *)
(*                                                                         *)
(* JavaScript values are tagged records ([type |-> ...]) so that null,     *)
(* undefined, strings and objects can be told apart and compared.          *)
(***************************************************************************)
EXTENDS Integers, Sequences, FiniteSets, TLC

VARIABLES
    \* --- chain and confirmation tracker ---
    txHashPromise,  \* the promise sendTx returns: pending, resolved (hash), rejected
    head,           \* the node's current block number
    chainReceipt,   \* the node's receipt for the transaction (raw), or Null
    reorgs,         \* reorganisations so far
    tpc,            \* position of each confirmed() call
    tMin,           \* its minConfirmations
    tReceipt,       \* the receipt its current poll fetched (normalized)
    tOutcome,       \* what its promise settled with
    tPolled,        \* whether it has issued a receipt fetch
    tSeen,          \* history: block of the first receipt it fetched, and
                    \* whether a later fetch found none; for an observed
                    \* loop also the count of its last poll
    \* --- RPC client and transport ---
    cpc,            \* position of each _send call: idle, sent, returned, thrown
    cid,            \* the id it put in its request
    cResp,          \* the response the transport handed it
    cOut,           \* what _send returned or threw
    \* --- name resolver ---
    netChainId,     \* the chain the client is connected to (0: not set up)
    rpcChainId,     \* RpcClient._chainId, the memoized chain id
    rOpts,          \* Resolver.minTTL / maxTTL
    rcache,         \* Resolver._cache: (chainId, hash) -> entry
    now,            \* _.now(), in ms
    rp,             \* each resolve() call: position, locals, requests issued
    \* --- transaction pipeline (FlexEther) ---
    instChainId,    \* FlexEther._chainId, the memoized chain id
    tx              \* the send/call/estimateGas in progress: position, inputs,
                    \* the options built so far, requests issued, outcome

trackerVars == <<txHashPromise, head, chainReceipt, reorgs, tpc, tMin, tReceipt,
                 tOutcome, tPolled, tSeen>>
rpcVars == <<cpc, cid, cResp, cOut>>
resolverVars == <<netChainId, rpcChainId, rOpts, rcache, now, rp>>
txVars == <<instChainId, tx>>
vars == <<trackerVars, rpcVars, resolverVars, txVars>>
\* What the steps of one component leave alone.
notTracker == <<rpcVars, resolverVars, txVars>>
notRpc == <<trackerVars, resolverVars, txVars>>
notResolver == <<trackerVars, rpcVars, txVars>>
notTx == <<trackerVars, rpcVars>>

(***************************************************************************)
(* Bounds of the model.                                                    *)
(***************************************************************************)
\* Request ids range over 0..IdSpace-1 (the code draws from 0..2^32-1).
IdSpace == 2
\* Number of RPC calls of one client that may be outstanding together.
NumCalls == 2
\* Highest block number the chain reaches.
MaxBlock == 14
\* Ticks of the clock (half an hour each).
MaxTicks == 3
\* Largest confirmation count a caller asks for.
MaxConfirmations == 13
\* Number of reorganisations that un-mine the tracked transaction.
MaxReorgs == 1

(***************************************************************************)
(* JavaScript values.                                                      *)
(***************************************************************************)
Null == [type |-> "null"]
Undefined == [type |-> "undefined"]
Str(s) == [type |-> "string", val |-> s]
Num(n) == [type |-> "number", val |-> n]
\* A quantity as the node encodes it ("0x..."): the hex string of n.
Hex(n) == [type |-> "hex", val |-> n]

\* JavaScript truthiness (`if (v)`, `v ? a : b`, `!v`).
Truthy(v) ==
    /\ v.type \notin {"null", "undefined"}
    /\ ~(v.type = "string" /\ v.val = "")
    /\ ~(v.type = "number" /\ v.val = 0)

\* _.isNil(v)
IsNil(v) == v.type \in {"null", "undefined"}

\* util.toNumber: _.toNumber of a hex string or of a number.
toNumber(v) == v.val

\* v[name] in JavaScript: a property of an object; a string (an address is a
\* string) has no such property and yields undefined.
Prop(v, name) ==
    IF v.type = "object" /\ name \in DOMAIN v THEN v[name] ELSE Undefined

\* _.clamp(number, lower, upper): capped by upper first, then raised to lower.
Clamp(number, lower, upper) ==
    LET capped == IF number <= upper THEN number ELSE upper
    IN  IF capped >= lower THEN capped ELSE lower

\* An address string '0x' + 40 hex digits: which 20 bytes, and its letter case.
Address(h, c) == [type |-> "address", hex |-> h, cased |-> c]
\* ethjs.isValidAddress
isValidAddress(v) == v.type = "address"
\* ethjs.toChecksumAddress
toChecksumAddress(a) == [a EXCEPT !.cased = "checksum"]

(***************************************************************************)
(* RPC client: RpcClient._send.                                            *)
(***************************************************************************)
NoError == Undefined
\* An error object of a response: message and optional data.
RemoteError == [type |-> "object", message |-> "remote", data |-> Undefined]

\* The data of an error object when it is a map: its keys in order, each
\* with whether it starts with '0x', and their values.
DataMap(entries) == [type |-> "object", entries |-> entries]
RevertReturn == Str("0x08c379a0")
\* Revert data as a node lays it out: the transaction hash maps to an
\* object with the return payload, next to other keys.
RevertData ==
    DataMap(<< [key |-> "stack", is0x |-> FALSE, value |-> Str("at")],
               [key |-> "0xTX", is0x |-> TRUE,
                value |-> [type |-> "object", return |-> RevertReturn]] >>)
\* The error objects a node answers with: no data, a string, revert data,
\* a map whose '0x' key holds no return payload, a map without '0x' key.
RemoteErrors ==
    { [type |-> "object", message |-> "remote", data |-> d] :
        d \in { Undefined, Str("0xdead"), RevertData,
                DataMap(<< [key |-> "0xTX", is0x |-> TRUE,
                            value |-> [type |-> "object",
                                       error |-> Str("revert")]] >>),
                DataMap(<< [key |-> "stack", is0x |-> FALSE,
                            value |-> Str("at")] >>) } }

\* The error data handed on as it came.
ErrorReturnData_Whole(error) == error.data

\* errorReturnData of _send (lines 236-246): the data of the error object,
\* or the return payload under its first '0x' key when it has one.
ErrorReturnData(error) ==
    IF ~Truthy(error.data) THEN Undefined
    ELSE IF error.data.type = "object"
    THEN LET found == SelectSeq(error.data.entries, LAMBDA e : e.is0x)
             errorData == IF found = <<>> THEN Undefined ELSE found[1].value
         IN  IF Truthy(errorData) /\ Truthy(Prop(errorData, "return"))
             THEN errorData.return
             ELSE error.data
    ELSE error.data

\* The two errors _send throws.
RpcIdMismatch == "Expected RPC id"
RpcRemoteError == "RPC error response"
\* The transport's own failure: sendPayload rejects and the await of _send
\* throws what it rejected with.
TransportError == "transport error"
RpcErrors == {Str(RpcIdMismatch), Str(RpcRemoteError), Str(TransportError)}

\* _send as the older client had it: no id check, any falsy result throws.
Send_ThrowsOnEmptyResult(id, response) ==
    IF ~Truthy(response.result)
    THEN [ok |-> FALSE, error |-> "RPC empty result", result |-> Undefined,
          errorReturnData |-> Undefined]
    ELSE [ok |-> TRUE, error |-> "", result |-> response.result,
          errorReturnData |-> Undefined]

\* _send with the error object examined before the id.
Send_ErrorFirst(id, response) ==
    IF Truthy(response.error)
    THEN [ok |-> FALSE, error |-> RpcRemoteError, result |-> Undefined,
          errorReturnData |-> Undefined]
    ELSE IF response.id # id
    THEN [ok |-> FALSE, error |-> RpcIdMismatch, result |-> Undefined,
          errorReturnData |-> Undefined]
    ELSE [ok |-> TRUE, error |-> "", result |-> response.result,
          errorReturnData |-> Undefined]

\* What _send makes of the transport's response to the request with `id`:
\* a returned result or a thrown RpcError.
_send(id, response) ==
    IF response.id # id
    THEN [ok |-> FALSE, error |-> RpcIdMismatch, result |-> Undefined,
          errorReturnData |-> Undefined]
    ELSE IF Truthy(response.error)
    THEN [ok |-> FALSE, error |-> RpcRemoteError, result |-> Undefined,
          errorReturnData |-> ErrorReturnData(response.error)]
    ELSE [ok |-> TRUE, error |-> "", result |-> response.result,
          errorReturnData |-> Undefined]

\* The ids Math.floor(Math.random() * 2**32) can produce.
RpcIds == 0 .. (IdSpace - 1)
\* The id drawn by a call whose steps do not depend on which id it was.
AnRpcId == CHOOSE id \in RpcIds : TRUE

\* The responses a transport can hand back for a request (id, method) whose
\* true result is r: the good one, a remote error, and one with another id.
TransportReplies(id, r) ==
    { [id |-> id, error |-> NoError, result |-> r],
      [id |-> id, error |-> RemoteError, result |-> Undefined] }
    \cup { [id |-> j, error |-> NoError, result |-> r] : j \in RpcIds \ {id} }

\* How one _send call with id `id` ends when the true result is r: with what
\* _send makes of the transport's reply, or with the transport's failure.
SendSettles(id, r) ==
    { _send(id, response) : response \in TransportReplies(id, r) }
        \cup { [ok |-> FALSE, error |-> TransportError, result |-> Undefined,
                errorReturnData |-> Undefined] }

\* One _send call per member; several may be outstanding together.
Calls == 1 .. NumCalls
NoId == 0 - 1
\* The result the node computes for the request of call q.
RpcResult(q) == Str("result")
NoResponse == [id |-> NoId, error |-> NoError, result |-> Undefined,
               madeFor |-> 0]
NoOutcome ==
    [ok |-> FALSE, error |-> "", result |-> Undefined,
     errorReturnData |-> Undefined]

\* The id is a counter: the k-th call of the client gets id k.
NextRpcId_Counter(c) == {Cardinality({d \in Calls : cpc[d] # "idle"})}

\* const id = Math.floor(Math.random() * 2**32): any id of the range.
NextRpcId(c) == RpcIds

\* _send up to its await: the request goes to the transport with a fresh id.
RpcSend(c) ==
    /\ UNCHANGED notRpc
    /\ cpc[c] = "idle"
    /\ \E id \in NextRpcId(c) : cid' = [cid EXCEPT ![c] = id]
    /\ cpc' = [cpc EXCEPT ![c] = "sent"]
    /\ UNCHANGED <<cResp, cOut>>

\* The transport hands call c a response and _send finishes.  The response
\* was made for the request of q (q # c when the transport mixes its
\* channels up); it echoes q's id or carries another one, and it may carry
\* an error object, a result or both.  The kinds of error data are drawn
\* for the answer to the call's own request.
RpcReceive(c) ==
    /\ UNCHANGED notRpc
    /\ cpc[c] = "sent"
    /\ \E q \in {d \in Calls : cpc[d] # "idle"} :
       \E i \in RpcIds \cup {cid[q]} :
       \E e \in IF q = c /\ i = cid[c] THEN {NoError} \cup RemoteErrors
                 ELSE {NoError, RemoteError} :
         LET response == [id |-> i, error |-> e, result |-> RpcResult(q)]
             out == _send(cid[c], response) IN
         /\ cResp' = [cResp EXCEPT ![c] =
                         [id |-> i, error |-> e, result |-> RpcResult(q),
                          madeFor |-> q]]
         /\ cOut' = [cOut EXCEPT ![c] = out]
         /\ cpc' = [cpc EXCEPT ![c] = IF out.ok THEN "returned" ELSE "thrown"]
    /\ UNCHANGED cid

RpcInit ==
    /\ cpc = [c \in Calls |-> "idle"]
    /\ cid = [c \in Calls |-> NoId]
    /\ cResp = [c \in Calls |-> NoResponse]
    /\ cOut = [c \in Calls |-> NoOutcome]

RpcNext ==
    \/ \E c \in Calls : RpcSend(c)
    \/ \E c \in Calls : RpcReceive(c)

(***************************************************************************)
(* The chain, as the node reports it.                                      *)
(***************************************************************************)
TxHash == Str("0xTX")
SubmitError == "SubmitError"

\* A raw receipt as eth_getTransactionReceipt returns it.
RawReceipt(b, st) ==
    [type |-> "object", transactionHash |-> TxHash,
     blockNumber |-> Hex(b), status |-> Hex(st)]

\* sendTx's promise resolves with the hash the submission RPC returned.
SubmitResolves ==
    /\ UNCHANGED notTracker
    /\ txHashPromise.state = "pending"
    /\ txHashPromise' = [state |-> "resolved", value |-> TxHash]
    /\ UNCHANGED <<head, chainReceipt, reorgs, tpc, tMin, tReceipt, tOutcome,
                   tPolled, tSeen>>

\* sendTx's promise rejects (construction or submission failed).
SubmitRejects ==
    /\ UNCHANGED notTracker
    /\ txHashPromise.state = "pending"
    /\ txHashPromise' = [state |-> "rejected", value |-> Str(SubmitError)]
    /\ UNCHANGED <<head, chainReceipt, reorgs, tpc, tMin, tReceipt, tOutcome,
                   tPolled, tSeen>>

\* A block without the transaction is mined.
MineBlock ==
    /\ UNCHANGED notTracker
    /\ head < MaxBlock
    /\ head' = head + 1
    /\ UNCHANGED <<txHashPromise, chainReceipt, reorgs, tpc, tMin, tReceipt,
                   tOutcome, tPolled, tSeen>>

\* The submitted transaction is mined in the next block; it succeeds
\* (status 1) or reverts (status 0).
MineTransaction ==
    /\ UNCHANGED notTracker
    /\ txHashPromise.state = "resolved"
    /\ chainReceipt = Null
    /\ head < MaxBlock
    /\ head' = head + 1
    /\ \E st \in {0, 1} : chainReceipt' = RawReceipt(head + 1, st)
    /\ UNCHANGED <<txHashPromise, reorgs, tpc, tMin, tReceipt, tOutcome,
                   tPolled, tSeen>>

\* A reorganisation replaces the transaction's block by one without it.
Reorg ==
    /\ UNCHANGED notTracker
    /\ chainReceipt # Null
    /\ reorgs < MaxReorgs
    /\ reorgs' = reorgs + 1
    /\ chainReceipt' = Null
    /\ UNCHANGED <<txHashPromise, head, tpc, tMin, tReceipt, tOutcome,
                   tPolled, tSeen>>

(***************************************************************************)
(* RpcClient.getTransactionReceipt / getBlockNumber, normalizeReceipt.     *)
(***************************************************************************)
normalizeReceipt(receipt) ==
    [type |-> "object", transactionHash |-> receipt.transactionHash,
     blockNumber |-> toNumber(receipt.blockNumber),
     status |-> toNumber(receipt.status)]

\* getTransactionReceipt's value from _send's result.
ReceiptOf(result) == IF Truthy(result) THEN normalizeReceipt(result) ELSE result

(***************************************************************************)
(* Confirmation tracker: createTransactionPromise.                         *)
(***************************************************************************)
\* Tracker 0 is txPromise = confirmed() made at creation (the receipt
\* observation point); tracker 1 is a confirmed(N) the caller asks for.
\* The loops share no state (each has its own locals and reads the node), so
\* a behaviour follows one of them: the other is "off".
Trackers == {0, 1}
\* confirmed(minConfirmations=0): the count of a call without argument, which
\* is what loop 0, txPromise = confirmed(), runs with.
DefaultMinConfirmations == 0
MinConfirmationChoices == {0, 3, MaxConfirmations}

\* The subtraction the other way round.
Confirmations_Reversed(receipt, currentBlockNumber) ==
    receipt.blockNumber - currentBlockNumber

\* getConfirmationsAndWait line 37.
Confirmations(receipt, currentBlockNumber) ==
    currentBlockNumber - receipt.blockNumber

\* A cap of 12 on the count waited for.
IsConfirmed_Cap12(receipt, confirmations, minConfirmations) ==
    /\ Truthy(receipt)
    /\ confirmations >= (IF minConfirmations > 12 THEN 12 ELSE minConfirmations)

\* The loop exit fails a reverted receipt.
IsConfirmed_NeedsSuccess(receipt, confirmations, minConfirmations) ==
    /\ Truthy(receipt)
    /\ receipt.status # 0
    /\ confirmations >= minConfirmations

\* The loop's exit test, line 13.
IsConfirmed(receipt, confirmations, minConfirmations) ==
    /\ Truthy(receipt)
    /\ confirmations >= minConfirmations

\* tx.confirmed(n): a new loop starts by awaiting the hash.
Confirmed(i, n) ==
    /\ UNCHANGED notTracker
    /\ tpc[i] = "idle"
    /\ tpc' = [tpc EXCEPT ![i] = "awaitHash"]
    /\ tMin' = [tMin EXCEPT ![i] = n]
    /\ UNCHANGED <<txHashPromise, head, chainReceipt, reorgs, tReceipt,
                   tOutcome, tPolled, tSeen>>

\* The loop starts polling without the hash.
AwaitTxHash_NoWait(i) ==
    /\ UNCHANGED notTracker
    /\ tpc[i] = "awaitHash"
    /\ tpc' = [tpc EXCEPT ![i] = "getReceipt"]
    /\ UNCHANGED <<txHashPromise, head, chainReceipt, reorgs, tMin, tReceipt,
                   tOutcome, tPolled, tSeen>>

\* const txHash = await txHashPromise (line 7).
AwaitTxHash_OwnError(i) ==
    /\ UNCHANGED notTracker
    /\ tpc[i] = "awaitHash"
    /\ txHashPromise.state # "pending"
    /\ IF txHashPromise.state = "resolved"
       THEN /\ tpc' = [tpc EXCEPT ![i] = "getReceipt"]
            /\ UNCHANGED tOutcome
       ELSE /\ tpc' = [tpc EXCEPT ![i] = "rejected"]
            /\ tOutcome' = [tOutcome EXCEPT ![i] = Str("Transaction failed")]
    /\ UNCHANGED <<txHashPromise, head, chainReceipt, reorgs, tMin, tReceipt,
                   tPolled, tSeen>>

AwaitTxHash(i) ==
    /\ UNCHANGED notTracker
    /\ tpc[i] = "awaitHash"
    /\ txHashPromise.state # "pending"
    /\ IF txHashPromise.state = "resolved"
       THEN /\ tpc' = [tpc EXCEPT ![i] = "getReceipt"]
            /\ UNCHANGED tOutcome
       ELSE /\ tpc' = [tpc EXCEPT ![i] = "rejected"]
            /\ tOutcome' = [tOutcome EXCEPT ![i] = txHashPromise.value]
    /\ UNCHANGED <<txHashPromise, head, chainReceipt, reorgs, tMin, tReceipt,
                   tPolled, tSeen>>

\* In tSeen: no receipt fetched so far.
NoReceiptSeen == 0 - 1
\* The history of a loop that has not polled.  Of an observed loop it also
\* holds: at, the number of reorganisations when the receipt of the current
\* poll was fetched; has and count, whether the last finished poll had a
\* receipt and the count it computed; lastAt, the value of at in that poll.
NothingSeen ==
    [first |-> NoReceiptSeen, lost |-> FALSE, at |-> 0, has |-> FALSE,
     count |-> 0, lastAt |-> 0]

\* The receipt the loop keeps once it has seen one.
FetchedReceipt_KeepFirst(i, result) ==
    IF Truthy(tReceipt[i]) THEN tReceipt[i] ELSE ReceiptOf(result)

\* The receipt of this poll: whatever the node returned now.
FetchedReceipt(i, result) == ReceiptOf(result)

\* What an observer writes down of a fetch that returned rcpt: the block of
\* the first receipt, whether a receipt went missing after it, and the
\* reorganisations so far.
NotedFetch(observed, s, rcpt) ==
    IF ~observed THEN s
    ELSE [s EXCEPT !.at = reorgs,
                   !.first = IF @ = NoReceiptSeen /\ Truthy(rcpt)
                             THEN rcpt.blockNumber ELSE @,
                   !.lost = @ \/ (s.first # NoReceiptSeen /\ ~Truthy(rcpt))]

\* What an observer writes down of a poll that fetched block number n: the
\* confirmation count it computed.
NotedPoll(observed, i, s, n) ==
    IF observed
    THEN [s EXCEPT !.has = Truthy(tReceipt[i]),
                   !.count = IF Truthy(tReceipt[i])
                             THEN Confirmations(tReceipt[i], n) ELSE 0,
                   !.lastAt = s.at]
    ELSE s

\* A fetch that failed is polled again after the timer.
PollFails_Retries(i, error) ==
    /\ tpc' = [tpc EXCEPT ![i] = "timer"]
    /\ UNCHANGED tOutcome

\* A fetch threw: nothing in confirmed or getConfirmationsAndWait catches it,
\* so the promise of confirmed rejects with it.
PollFails(i, error) ==
    /\ tpc' = [tpc EXCEPT ![i] = "rejected"]
    /\ tOutcome' = [tOutcome EXCEPT ![i] = Str(error)]

\* await flexEther.getTransactionReceipt(txHash) (line 28), of a plain or an
\* observed loop.
ReceiptStep(i, observed) ==
    /\ tpc[i] = "getReceipt"
    /\ UNCHANGED notTracker
    /\ tPolled' = [tPolled EXCEPT ![i] = TRUE]
    /\ \E id \in {AnRpcId} : \E out \in SendSettles(id, chainReceipt) :
         LET rcpt == FetchedReceipt(i, out.result) IN
         IF out.ok
         THEN /\ tReceipt' = [tReceipt EXCEPT ![i] = rcpt]
              /\ tSeen' = [tSeen EXCEPT ![i] =
                              NotedFetch(observed, @, rcpt)]
              /\ tpc' = [tpc EXCEPT ![i] = "getBlockNumber"]
              /\ UNCHANGED tOutcome
         ELSE /\ PollFails(i, out.error)
              /\ UNCHANGED <<tReceipt, tSeen>>
    /\ UNCHANGED <<txHashPromise, head, chainReceipt, reorgs, tMin>>

GetTransactionReceipt(i) == ReceiptStep(i, FALSE)
\* The same step of an observed loop.
ObservedReceipt(i) == ReceiptStep(i, TRUE)

\* An iteration that gives up when it finds no receipt.
AfterBlockNumber_GivesUp(i, currentBlockNumber) ==
    IF tReceipt[i] = Null
    THEN /\ tpc' = [tpc EXCEPT ![i] = "rejected"]
         /\ tOutcome' = [tOutcome EXCEPT ![i] = Str("deadline")]
    ELSE IF IsConfirmed(tReceipt[i],
                        Confirmations(tReceipt[i], currentBlockNumber), tMin[i])
    THEN /\ tpc' = [tpc EXCEPT ![i] = "resolved"]
         /\ tOutcome' = [tOutcome EXCEPT ![i] = tReceipt[i]]
    ELSE /\ tpc' = [tpc EXCEPT ![i] = "getReceipt"]
         /\ UNCHANGED tOutcome

\* The rest of one iteration once the block number has arrived (lines 29-37
\* and 13-15): no receipt means the timer; otherwise resolve or loop at once.
AfterBlockNumber(i, currentBlockNumber) ==
    IF tReceipt[i] = Null
    THEN /\ tpc' = [tpc EXCEPT ![i] = "timer"]
         /\ UNCHANGED tOutcome
    ELSE IF IsConfirmed(tReceipt[i],
                        Confirmations(tReceipt[i], currentBlockNumber), tMin[i])
    THEN /\ tpc' = [tpc EXCEPT ![i] = "resolved"]
         /\ tOutcome' = [tOutcome EXCEPT ![i] = tReceipt[i]]
    ELSE /\ tpc' = [tpc EXCEPT ![i] = "getReceipt"]
         /\ UNCHANGED tOutcome

\* await flexEther.getBlockNumber() (line 29) and the rest of the iteration,
\* of a plain or an observed loop.
BlockNumberStep(i, observed) ==
    /\ tpc[i] = "getBlockNumber"
    /\ UNCHANGED notTracker
    /\ \E id \in {AnRpcId} : \E out \in SendSettles(id, Hex(head)) :
         IF out.ok
         THEN /\ AfterBlockNumber(i, toNumber(out.result))
              /\ tSeen' = [tSeen EXCEPT ![i] = NotedPoll(observed, i, @, toNumber(out.result))]
         ELSE /\ PollFails(i, out.error)
              /\ UNCHANGED tSeen
    /\ UNCHANGED <<txHashPromise, head, chainReceipt, reorgs, tMin, tReceipt,
                   tPolled>>

GetBlockNumber(i) == BlockNumberStep(i, FALSE)
\* The same step of an observed loop: the count of this poll is written down.
ObservedBlockNumber(i) == BlockNumberStep(i, TRUE)

\* The timer's promise is never accepted.
TimerFires_NeverAccepts(i) ==
    /\ UNCHANGED notTracker
    /\ tpc[i] = "timer"
    /\ UNCHANGED trackerVars

\* setTimeout(() => accept([]), CONFIRMATION_INTERVAL_MS) fires (line 34):
\* receipt is undefined, the loop goes round.
TimerFires(i) ==
    /\ UNCHANGED notTracker
    /\ tpc[i] = "timer"
    /\ tpc' = [tpc EXCEPT ![i] = "getReceipt"]
    /\ UNCHANGED <<txHashPromise, head, chainReceipt, reorgs, tMin, tReceipt,
                   tOutcome, tPolled, tSeen>>

\* txPromise.txId = txHashPromise (line 19).
txId == txHashPromise

\* send()/transfer() hand sendTx's promise to createTransactionPromise, which
\* starts txPromise = confirmed(); the behaviour follows loop f from here.
CreateTransactionPromise(f) ==
    /\ UNCHANGED notTracker
    /\ txHashPromise.state = "none"
    /\ txHashPromise' = [state |-> "pending", value |-> Undefined]
    /\ tpc' = [i \in Trackers |->
                 IF i # f THEN "off" ELSE IF i = 0 THEN "awaitHash" ELSE "idle"]
    /\ UNCHANGED <<head, chainReceipt, reorgs, tMin, tReceipt, tOutcome,
                   tPolled, tSeen>>

TrackerInit ==
    /\ txHashPromise = [state |-> "none", value |-> Undefined]
    /\ head = 0
    /\ chainReceipt = Null
    /\ reorgs = 0
    /\ tpc = [i \in Trackers |-> "off"]
    /\ tMin = [i \in Trackers |-> DefaultMinConfirmations]
    /\ tReceipt = [i \in Trackers |-> Undefined]
    /\ tOutcome = [i \in Trackers |-> Undefined]
    /\ tPolled = [i \in Trackers |-> FALSE]
    /\ tSeen = [i \in Trackers |-> NothingSeen]

(***************************************************************************)
(* Name resolver: Resolver.                                                *)
(***************************************************************************)
ONE_HOUR == 60 * 60 * 1000
\* Number.MAX_SAFE_INTEGER is 2^53 - 1; the model's integers are 32 bits wide
\* and every TTL and time of the model lies far below both values.
MAX_SAFE_INTEGER == 2147483647
NULL_ADDRESS == Address("00", "lower")
RESOLVER_FN_SIG == "0x0178b8bf"
ADDR_FN_SIG == "0x3b3b57de"
TTL_FN_SIG == "0x16a25cbd"
\* ENS_ADDRESSES: the chains with a registry.
ENS_ADDRESSES == [c \in {1, 3, 4} |-> Address("ens", "lower")]

\* A dotted name, as its labels after split('.') and _.filter.
Name(labels) == [type |-> "name", labels |-> labels]
\* String.prototype.toLowerCase on the labels the model uses.
toLowerCase(label) ==
    CASE label = "Ethereum" -> "ethereum"
      [] label = "ETH" -> "eth"
      [] label = "Wallet" -> "wallet"
      [] OTHER -> label

RECURSIVE Reverse(_)
Reverse(q) == IF q = <<>> THEN <<>> ELSE Append(Reverse(Tail(q)), Head(q))

\* The digest of all labels, whatever topLevelOnly says.
hashName_AllLabels(name, topLevelOnly) ==
    [type |-> "hash",
     folded |-> Reverse([k \in 1 .. Len(name.labels) |->
                            toLowerCase(name.labels[k])])]

\* The digest of the labels as written, without toLowerCase.
hashName_CaseSensitive(name, topLevelOnly) ==
    [type |-> "hash",
     folded |-> IF topLevelOnly THEN SubSeq(Reverse(name.labels), 1, 2)
                ELSE Reverse(name.labels)]

\* The fold hashBuffer = keccak256(hashBuffer ++ keccak256(label)) from the
\* zero buffer; keccak256 is collision-free, so the digest is identified by
\* the labels folded in, in order.
hashName(name, topLevelOnly) ==
    LET lower == [k \in 1 .. Len(name.labels) |-> toLowerCase(name.labels[k])]
        labels == Reverse(lower)
    IN  [type |-> "hash",
         folded |-> IF topLevelOnly THEN SubSeq(labels, 1, 2) ELSE labels]

\* hashName throws 'Invalid ENS name' on fewer than two labels.
ValidName(name) == Len(name.labels) >= 2

\* The inputs resolve() is called with.
ResolveInputs ==
    { Name(<<"ethereum", "eth">>), Name(<<"Ethereum", "ETH">>),
      Name(<<"wallet", "ethereum", "eth">>), Name(<<"eth">>),
      Address("a1", "lower") }
ChainIds == {1, 5}
CacheKeys ==
    { <<c, hashName(n, FALSE)>> :
        c \in ChainIds, n \in {i \in ResolveInputs : i.type = "name"} }

\* What eth_call returns: a 32-byte word holding an address or a number, or
\* no bytes at all.
AddressWord(a) == [type |-> "bytes", kind |-> "address", val |-> a]
UintWord(n) == [type |-> "bytes", kind |-> "uint", val |-> n]
EmptyBytes == [type |-> "bytes", kind |-> "empty", val |-> ""]

\* extractBytes(raw, size): '0x' + the last 2*size characters of raw.
extractBytes(raw, size) ==
    IF raw.kind = "address" /\ size = 20 THEN Address(raw.val, "lower")
    ELSE IF raw.kind = "uint" /\ size = 8 THEN Hex(raw.val)
    ELSE Str("0x0x")

\* encodeCallData(sig, arg) = sig + arg.substr(2)
encodeCallData(sig, arg) == [sig |-> sig, arg |-> arg]

\* The registry's and resolver's answers: the chain may change between calls.
ResolverAnswers == {AddressWord("00"), AddressWord("r1"), EmptyBytes}
AddrAnswers == {AddressWord("00"), AddressWord("a1"), AddressWord("a2")}
TtlAnswers == {UintWord(0), UintWord(1800), UintWord(3600), UintWord(10800)}
\* Resolver options: the defaults, and a window from 0 to two hours.
ResolverOptions ==
    { [minTTL |-> ONE_HOUR, maxTTL |-> MAX_SAFE_INTEGER],
      [minTTL |-> 0, maxTTL |-> 2 * ONE_HOUR] }

\* Resolver._getCached
_getCached(chainId, hash) ==
    LET cached == rcache[<<chainId, hash>>] IN
    IF Truthy(cached) /\ cached.expires > now THEN cached.address ELSE Undefined

\* A write that keeps the expiry of an entry already there.
PutCached_KeepsExpiry(chainId, hash, address, ttl) ==
    [rcache EXCEPT ![<<chainId, hash>>] =
        [type |-> "object", address |-> address,
         expires |-> IF Truthy(@) THEN @.expires
                     ELSE now + Clamp(ttl, rOpts.minTTL, rOpts.maxTTL)]]

\* Resolver._putCached: the cache after the write.
_putCached(chainId, hash, address, ttl) ==
    [rcache EXCEPT ![<<chainId, hash>>] =
        [type |-> "object", address |-> address,
         expires |-> now + Clamp(ttl, rOpts.minTTL, rOpts.maxTTL)]]

\* Resolver._call: the request it hands to rpc.call (the block argument is
\* not passed on), as eth_call sends it.
EthCall(chainId, contract, data) ==
    [method |-> "eth_call", to |-> contract, data |-> data,
     block |-> Str("latest")]

Resolvers == {1, 2}
IdleResolve ==
    [pc |-> "idle", name |-> Undefined, chainId |-> 0, resolver |-> Undefined,
     address |-> Undefined, result |-> Undefined, error |-> "", hit |-> FALSE,
     ttl |-> Undefined, block |-> Undefined, log |-> <<>>]

Throw(r, msg) == [r EXCEPT !.pc = "thrown", !.error = msg]
Return(r, v) == [r EXCEPT !.pc = "returned", !.result = v]
Issue(r, pc, req) == [r EXCEPT !.pc = pc, !.log = Append(@, req)]
EthCalls(r) == {k \in 1 .. Len(r.log) : r.log[k].method = "eth_call"}

\* new Resolver(rpc, opts) over a client connected to chain c.
NewResolver(opts, c) ==
    /\ UNCHANGED notResolver
    /\ netChainId = 0
    /\ netChainId' = c
    /\ rOpts' = opts
    /\ UNCHANGED <<rpcChainId, rcache, now, rp>>

\* Time passes.
Tick ==
    /\ UNCHANGED notResolver
    /\ netChainId # 0
    /\ now < MaxTicks * (ONE_HOUR \div 2)
    /\ now' = now + (ONE_HOUR \div 2)
    /\ UNCHANGED <<netChainId, rpcChainId, rOpts, rcache, rp>>

\* resolve(name) handing an address back as it was given.
ResolveEntry_AsGiven(name) ==
    LET r == [IdleResolve EXCEPT !.name = name] IN
    IF isValidAddress(name) THEN Return(r, name)
    ELSE IF ~ValidName(name) THEN Throw(r, "Invalid ENS name")
    ELSE [r EXCEPT !.pc = "getChainId"]

\* resolve(name) up to its first await (lines 28-35): an address comes back
\* checksummed, a name of fewer than two labels throws, any other name goes on
\* to the chain id.
ResolveEntry(name) ==
    LET r == [IdleResolve EXCEPT !.name = name] IN
    IF isValidAddress(name) THEN Return(r, toChecksumAddress(name))
    ELSE IF ~ValidName(name) THEN Throw(r, "Invalid ENS name")
    ELSE [r EXCEPT !.pc = "getChainId"]

\* A call of resolve(name) begins.
Resolve(p, name, block) ==
    /\ rp[p].pc = "idle"
    /\ netChainId # 0
    /\ UNCHANGED notResolver
    /\ rp' = [rp EXCEPT ![p] = [ResolveEntry(name) EXCEPT !.block = block]]
    /\ UNCHANGED <<netChainId, rpcChainId, rOpts, rcache, now>>

\* The cache branch returns the address _getCached found.
CacheHitValue_Direct(cached) == cached

\* `return cached.address` (line 40) on what _getCached returned.
CacheHitValue(cached) == Prop(cached, "address")

\* resolve() once the chain id is known (lines 37-43): the cache, then the
\* registry of the chain and the resolver lookup.
AfterChainId(r, chainId) ==
    LET cached == _getCached(chainId, hashName(r.name, FALSE))
        r1 == [r EXCEPT !.chainId = chainId] IN
    IF Truthy(cached)
    THEN [Return(r1, CacheHitValue(cached)) EXCEPT !.hit = TRUE]
    ELSE IF chainId \notin DOMAIN ENS_ADDRESSES
    THEN Throw(r1, "ENS is not supported on chain")
    ELSE Issue(r1, "getResolver",
               EthCall(chainId, ENS_ADDRESSES[chainId],
                       encodeCallData(RESOLVER_FN_SIG, hashName(r.name, TRUE))))

\* rpc.getChainId() asking the node on every call.
RGetChainId_NoMemo(p) ==
    /\ rp[p].pc = "getChainId"
    /\ UNCHANGED notResolver
    /\ \E id \in {AnRpcId} :
       \E response \in TransportReplies(id, Hex(netChainId)) :
         LET out == _send(id, response)
             r == [rp[p] EXCEPT !.log =
                      Append(@, [method |-> "eth_chainId"])] IN
         IF out.ok
         THEN /\ rpcChainId' = Num(toNumber(out.result))
              /\ rp' = [rp EXCEPT ![p] =
                           AfterChainId(r, toNumber(out.result))]
         ELSE /\ rp' = [rp EXCEPT ![p] = Throw(r, out.error)]
              /\ UNCHANGED rpcChainId
    /\ UNCHANGED <<netChainId, rOpts, rcache, now>>

\* await this.rpc.getChainId() (line 35): the memo, or one chain-id request.
RGetChainId(p) ==
    /\ rp[p].pc = "getChainId"
    /\ UNCHANGED notResolver
    /\ IF rpcChainId # Null
       THEN /\ rp' = [rp EXCEPT ![p] = AfterChainId(@, toNumber(rpcChainId))]
            /\ UNCHANGED rpcChainId
       ELSE \E id \in {AnRpcId} :
            \E response \in TransportReplies(id, Hex(netChainId)) :
              LET out == _send(id, response)
                  r == [rp[p] EXCEPT !.log =
                           Append(@, [method |-> "eth_chainId"])] IN
              IF out.ok
              THEN /\ rpcChainId' = Num(toNumber(out.result))
                   /\ rp' = [rp EXCEPT ![p] =
                                AfterChainId(r, toNumber(out.result))]
              ELSE /\ rp' = [rp EXCEPT ![p] = Throw(r, out.error)]
                   /\ UNCHANGED rpcChainId
    /\ UNCHANGED <<netChainId, rOpts, rcache, now>>

\* _getResolver's answer arrives (lines 90-102, 44-48).
RGetResolver(p) ==
    /\ rp[p].pc = "getResolver"
    /\ UNCHANGED notResolver
    /\ \E id \in {AnRpcId} : \E raw \in ResolverAnswers :
       \E response \in TransportReplies(id, raw) :
         LET out == _send(id, response)
             r == rp[p]
             resolver == extractBytes(out.result, 20) IN
         rp' = [rp EXCEPT ![p] =
                  IF ~out.ok THEN Throw(r, out.error)
                  ELSE IF ~(resolver # NULL_ADDRESS /\ isValidAddress(resolver))
                  THEN Throw(r, "No resolver for ENS address")
                  ELSE Issue([r EXCEPT !.resolver = resolver], "resolveHash",
                             EthCall(r.chainId, resolver,
                                     encodeCallData(ADDR_FN_SIG,
                                                    hashName(r.name, FALSE))))]
    /\ UNCHANGED <<netChainId, rpcChainId, rOpts, rcache, now>>

\* _resolveHash's answer arrives (lines 105-117, 49-53).
RResolveHash(p) ==
    /\ rp[p].pc = "resolveHash"
    /\ UNCHANGED notResolver
    /\ \E id \in {AnRpcId} : \E raw \in AddrAnswers :
       \E response \in TransportReplies(id, raw) :
         LET out == _send(id, response)
             r == rp[p]
             address == extractBytes(out.result, 20) IN
         rp' = [rp EXCEPT ![p] =
                  IF ~out.ok THEN Throw(r, out.error)
                  ELSE IF ~(address # NULL_ADDRESS /\ isValidAddress(address))
                  THEN Throw(r, "Failed to resolve ENS address")
                  ELSE Issue([r EXCEPT !.address = toChecksumAddress(address)],
                             "getTTL",
                             EthCall(r.chainId, ENS_ADDRESSES[r.chainId],
                                     encodeCallData(TTL_FN_SIG,
                                                    hashName(r.name, TRUE))))]
    /\ UNCHANGED <<netChainId, rpcChainId, rOpts, rcache, now>>

\* _getTTL taking the registry's seconds for milliseconds.
TTLOf_Seconds(raw) ==
    Clamp(toNumber(extractBytes(raw, 8)), rOpts.minTTL, rOpts.maxTTL)

\* _getTTL's value: parseInt(ttl.substr(2), 16) * 1000, clamped (lines 130-134).
TTLOf(raw) ==
    Clamp(toNumber(extractBytes(raw, 8)) * 1000, rOpts.minTTL, rOpts.maxTTL)

\* The entry written as soon as the address is known, whatever the TTL
\* lookup answers.
CacheAfter_Early(r, out) ==
    _putCached(r.chainId, hashName(r.name, FALSE), r.address, ONE_HOUR)

\* The cache after the TTL lookup (lines 53-58): nothing is written when
\* the lookup threw or the TTL is not positive.
CacheAfter(r, out) ==
    IF ~out.ok THEN rcache
    ELSE IF TTLOf(out.result) > 0
    THEN _putCached(r.chainId, hashName(r.name, FALSE), r.address,
                    TTLOf(out.result))
    ELSE rcache

\* _getTTL's answer arrives (lines 121-134, 54-58).
RGetTTL(p) ==
    /\ rp[p].pc = "getTTL"
    /\ UNCHANGED notResolver
    /\ \E id \in {AnRpcId} : \E raw \in TtlAnswers :
       \E response \in TransportReplies(id, raw) :
         LET out == _send(id, response)
             r == rp[p] IN
         /\ rp' = [rp EXCEPT ![p] =
                      IF ~out.ok THEN Throw(r, out.error)
                      ELSE Return([r EXCEPT !.ttl = out.result], r.address)]
         /\ rcache' = CacheAfter(r, out)
    /\ UNCHANGED <<netChainId, rpcChainId, rOpts, now>>

ResolverInit ==
    /\ netChainId = 0
    /\ rpcChainId = Null
    /\ rOpts = [minTTL |-> ONE_HOUR, maxTTL |-> MAX_SAFE_INTEGER]
    /\ rcache = [k \in CacheKeys |-> Undefined]
    /\ now = 0
    /\ rp = [p \in Resolvers |-> IdleResolve]

ResolverNext ==
    \/ \E opts \in ResolverOptions, c \in ChainIds : NewResolver(opts, c)
    \/ Tick
    \/ \E p \in Resolvers, name \in ResolveInputs :
          Resolve(p, name, Undefined)
    \/ Resolve(1, Name(<<"ethereum", "eth">>), Num(2))
    \/ \E p \in Resolvers : RGetChainId(p)
    \/ \E p \in Resolvers : RGetResolver(p)
    \/ \E p \in Resolvers : RResolveHash(p)
    \/ \E p \in Resolvers : RGetTTL(p)

(***************************************************************************)
(* Transaction pipeline: FlexEther.send / call / estimateGas.              *)
(***************************************************************************)
\* FlexEther.gasBonus and gasPriceBonus, the defaults of the constructor
\* (0.5 and 0.005), in thousandths.
gasBonus == 500
gasPriceBonus == 5

\* A decimal string, as BN.toString(10) and BigNumber.toString(10) give it.
Dec(n) == [type |-> "decimal", val |-> n]
\* _.isString / _.isNumber
isString(v) == v.type \in {"string", "address", "decimal", "hex", "name"}
isNumber(v) == v.type = "number"
\* a || b
JsOr(a, b) == IF Truthy(a) THEN a ELSE b

\* util.toUnsigned: the decimal string of a quantity.
toUnsigned(v) == Dec(v.val)
\* util.toHex (this file of the repository is older than its callers and
\* lacks it): a quantity becomes its '0x' hex string, a hex string of bytes
\* stays as it is.
toHex(v) == IF v.type \in {"number", "decimal", "hex"} THEN Hex(v.val) ELSE v
\* util.asAddress: a valid address is returned as it is (any other value
\* throws; the pipeline hands it resolved addresses only).
asAddress(v) == v
\* util.asBytes: '0x' and lower-case hex come back unchanged.
asBytes(v) == v
\* util.privateKeyToAddress
privateKeyToAddress(key) == Address("k1", "checksum")

\* bonus = (_.isNumber(bonus) ? bonus : <instance bonus>) || 0, a fraction
\* held in thousandths (Num(250) is 0.25).
BonusOf(bonus, instanceBonus) ==
    LET b == IF isNumber(bonus) THEN bonus ELSE Num(instanceBonus)
    IN  toNumber(JsOr(b, Num(0)))

\* The price with its bonus cut off instead of rounded.
WithBonus_Floor(price, bonus) ==
    Dec((toNumber(price) * (1000 + bonus)) \div 1000)

\* new BigNumber(price).times(1 + bonus).integerValue().toString(10):
\* rounded half up.
WithBonus(price, bonus) ==
    Dec((toNumber(price) * (1000 + bonus) + 500) \div 1000)
\* The estimate with its bonus rounded down.
GasWithBonus_Floor(gas, bonus) == Num((gas * (1000 + bonus)) \div 1000)

\* Math.ceil(gas * (1 + bonus))
GasWithBonus(gas, bonus) == Num((gas * (1000 + bonus) + 999) \div 1000)

\* createCommonFork(chainId, fork)
createCommonFork(chainId, fork) ==
    [type |-> "object", chainId |-> chainId, hardfork |-> fork]
HARD_FORKS_BY_CHAIN_ID ==
    [c \in {1, 3} |->
        IF c = 1
        THEN << [block |-> 12965000, common |-> createCommonFork(1, "london")],
                [block |-> 12244000, common |-> createCommonFork(1, "berlin")],
                [block |-> 0, common |-> createCommonFork(1, "istanbul")] >>
        ELSE << [block |-> 10499401, common |-> createCommonFork(3, "london")],
                [block |-> 9812189, common |-> createCommonFork(3, "berlin")],
                [block |-> 0, common |-> createCommonFork(3, "istanbul")] >>]
\* HARD_FORKS_BY_CHAIN_ID['*']
DefaultForks == << [block |-> 0, common |-> createCommonFork(3, "istanbul")] >>

\* _getChainCommon once the block number and the chain id are known: the
\* first fork of the chain's list that starts at or before the block.
\* A promise that has not been awaited, and the value it will have.
PromiseOf(v) == [type |-> "promise", of |-> v]
\* a <= b in JavaScript: numbers compare by value; a promise converts to NaN
\* and every comparison with NaN is false.
LessEq(a, b) == a.type = "number" /\ b.type = "number" /\ a.val <= b.val

ChainCommon(blockNumber, chainId) ==
    LET forks == IF chainId \in DOMAIN HARD_FORKS_BY_CHAIN_ID
                 THEN HARD_FORKS_BY_CHAIN_ID[chainId] ELSE DefaultForks
        reached == {k \in 1 .. Len(forks) :
                       LessEq(Num(forks[k].block), blockNumber)}
    IN  IF reached = {} THEN Undefined
        ELSE forks[CHOOSE k \in reached : \A j \in reached : k <= j].common

\* The options a caller passes.
FeeOptions ==
    { [gasPrice |-> Undefined, maxFeePerGas |-> Undefined,
       maxPriorityFeePerGas |-> Undefined],
      [gasPrice |-> Num(2000), maxFeePerGas |-> Undefined,
       maxPriorityFeePerGas |-> Undefined],
      [gasPrice |-> Undefined, maxFeePerGas |-> Num(3000),
       maxPriorityFeePerGas |-> Num(200)] }
NoOptions ==
    [from |-> Undefined, key |-> Undefined, data |-> Undefined,
     nonce |-> Undefined, gasLimit |-> Undefined, gasPrice |-> Undefined,
     maxFeePerGas |-> Undefined, maxPriorityFeePerGas |-> Undefined,
     value |-> Undefined, block |-> Undefined, gasBonus |-> Undefined,
     gasPriceBonus |-> Undefined]
TxOptions ==
    { [NoOptions EXCEPT !.from = f, !.key = k, !.data = d, !.nonce = n,
                        !.gasLimit = g, !.gasPrice = fee.gasPrice,
                        !.maxFeePerGas = fee.maxFeePerGas,
                        !.maxPriorityFeePerGas = fee.maxPriorityFeePerGas] :
        f \in {Undefined, Null, Address("f1", "lower")},
        k \in {Undefined, Str("key")},
        d \in {Undefined, Str("0x"), Str("0xdata")},
        n \in {Undefined, Num(0)},
        g \in {Undefined, Num(50000)},
        fee \in FeeOptions }
\* The options transfer() is called with, and the amounts.
TransferOptions ==
    {o \in TxOptions : /\ o.data = Undefined /\ o.nonce = Undefined
                       /\ o.gasLimit = Undefined /\ o.gasPrice = Undefined
                       /\ o.maxFeePerGas = Undefined}
Amounts == {Num(5)}
\* The options that decide gas and fees: each fee field supplied or not
\* (a supplied priority fee of 0 included), a gas limit or none, and
\* per-call bonuses of 0 and 0.25 or none.
Bonuses ==
    { [gasBonus |-> Undefined, gasPriceBonus |-> Undefined],
      [gasBonus |-> Num(0), gasPriceBonus |-> Num(250)],
      [gasBonus |-> Num(250), gasPriceBonus |-> Num(0)] }
BonusOptions ==
    { [NoOptions EXCEPT !.from = Address("f1", "lower"), !.nonce = Num(0),
                        !.gasLimit = g, !.gasPrice = gp, !.maxFeePerGas = mf,
                        !.maxPriorityFeePerGas = mp, !.gasBonus = b.gasBonus,
                        !.gasPriceBonus = b.gasPriceBonus] :
        g \in {Undefined, Num(50000)}, gp \in {Undefined, Num(2000)},
        mf \in {Undefined, Num(3000)}, mp \in {Undefined, Num(0)},
        b \in Bonuses }
\* The options of a call or an estimate: no nonce and no fee fields.
CallOptions ==
    {o \in TxOptions : /\ o.nonce = Undefined
                       /\ o.gasPrice = Undefined
                       /\ o.maxFeePerGas = Undefined}
\* The options of a send pinned to a block.
BlockOptions ==
    { [NoOptions EXCEPT !.from = Address("f1", "lower"), !.key = k,
                        !.nonce = Num(0), !.gasLimit = Num(50000),
                        !.block = b] :
        k \in {Undefined, Str("key")}, b \in {Num(0), Num(12965000)} }
TxDestinations ==
    {Undefined, Address("b1", "lower"), Name(<<"ethereum", "eth">>)}

\* What the node answers.
BlockNumbers == {0, 12965000}
AccountLists == {<<>>, <<Address("ac", "lower")>>}
NodeNonce == 3
\* The node's transaction count of an account: each account has its own.
TransactionCountOf(a) ==
    NodeNonce + (CASE a.hex = "f1" -> 0 [] a.hex = "k1" -> 1 [] OTHER -> 2)
NodeGasEstimate == 21001
NodeGasPrice == 1500
NodeMaxPriorityFee == 100
NodeBaseFee == 900
NodeBlockGasLimit == 30000000
RawBlock ==
    [type |-> "object", gasLimit |-> Hex(NodeBlockGasLimit),
     baseFeePerGas |-> Hex(NodeBaseFee)]
CallResult == Str("0xreturned")

\* RpcClient's normalizeBlock, on the fields the pipeline reads.
normalizeBlock(block) ==
    [type |-> "object",
     gasLimit |-> JsOr(Num(toNumber(block.gasLimit)), Num(0)),
     baseFeePerGas |-> IF Truthy(block.baseFeePerGas)
                       THEN toUnsigned(block.baseFeePerGas)
                       ELSE block.baseFeePerGas]

\* What _send makes of the transport's replies to a request whose true
\* result is r.
SendOutcomes(r) ==
    { _send(AnRpcId, response) : response \in TransportReplies(AnRpcId, r) }

NoTxOpts ==
    [gasPrice |-> Undefined, maxFeePerGas |-> Undefined,
     maxPriorityFeePerGas |-> Undefined, gasLimit |-> Undefined,
     value |-> Undefined, data |-> Undefined, to |-> Undefined,
     from |-> Undefined, nonce |-> Undefined, chainId |-> Undefined]
IdleTx ==
    [kind |-> "none", pc |-> "idle", to |-> Undefined, opts |-> NoOptions,
     from |-> Undefined, accounts |-> Undefined, common |-> Undefined,
     blockNumber |-> Undefined,
     txOpts |-> NoTxOpts, log |-> <<>>, error |-> "", result |-> Undefined]

TxThrow(t, msg) == [t EXCEPT !.pc = "thrown", !.error = msg]
TxReturn(t, v) == [t EXCEPT !.pc = "returned", !.result = v]
TxIssue(t, pc, method, params) ==
    [t EXCEPT !.pc = pc,
              !.log = Append(@, [method |-> method, params |-> params])]
Methods(t) == {t.log[k].method : k \in 1 .. Len(t.log)}

\* normalizeTxOpts
normalizeTxOpts(opts) ==
    [gasPrice |-> IF IsNil(opts.gasPrice) THEN Undefined
                  ELSE toHex(JsOr(opts.gasPrice, Num(0))),
     maxFeePerGas |-> IF IsNil(opts.maxFeePerGas) THEN Undefined
                      ELSE toHex(JsOr(opts.maxFeePerGas, Num(0))),
     maxPriorityFeePerGas |->
         IF IsNil(opts.maxPriorityFeePerGas) THEN Undefined
         ELSE toHex(JsOr(opts.maxPriorityFeePerGas, Num(0))),
     gasLimit |-> toHex(JsOr(opts.gasLimit, Num(0))),
     gas |-> toHex(JsOr(opts.gasLimit, Num(0))),
     value |-> toHex(JsOr(opts.value, Num(0))),
     nonce |-> IF IsNil(opts.nonce) THEN Undefined ELSE toHex(opts.nonce),
     data |-> IF Truthy(opts.data) /\ opts.data # Str("0x")
              THEN toHex(opts.data) ELSE Str("0x"),
     to |-> IF isString(opts.to) THEN toChecksumAddress(opts.to) ELSE Undefined,
     from |-> IF isString(opts.from) THEN toChecksumAddress(opts.from)
              ELSE Undefined]

\* The transaction object RpcClient.estimateGas and RpcClient.call send.
CallObject(t) ==
    [to |-> IF IsNil(t.to) THEN Undefined ELSE asAddress(t.to),
     from |-> IF IsNil(t.from) THEN Undefined ELSE asAddress(t.from),
     gas |-> IF IsNil(t.gas) THEN Undefined ELSE toHex(t.gas),
     gasPrice |-> IF IsNil(t.gasPrice) THEN Undefined ELSE toHex(t.gasPrice),
     maxFeePerGas |-> IF IsNil(t.maxFeePerGas) THEN Undefined
                      ELSE toHex(t.maxFeePerGas),
     maxPriorityFeePerGas |-> IF IsNil(t.maxPriorityFeePerGas) THEN Undefined
                              ELSE toHex(t.maxPriorityFeePerGas),
     value |-> IF IsNil(t.value) THEN Undefined ELSE toHex(t.value),
     data |-> IF IsNil(t.data) THEN Undefined ELSE asBytes(t.data)]

\* The transaction object RpcClient.sendTransaction sends.
SendObject(t) ==
    [to |-> IF IsNil(t.to) THEN Undefined ELSE asAddress(t.to),
     from |-> IF IsNil(t.from) THEN Undefined ELSE asAddress(t.from),
     gas |-> IF IsNil(t.gas) THEN Undefined ELSE toHex(t.gas),
     gasPrice |-> IF IsNil(t.gasPrice) THEN Undefined ELSE toHex(t.gasPrice),
     maxPriorityFeePerGas |-> IF IsNil(t.maxPriorityFeePerGas) THEN Undefined
                              ELSE toHex(t.maxPriorityFeePerGas),
     maxFeePerGas |-> IF IsNil(t.maxFeePerGas) THEN Undefined
                      ELSE toHex(t.maxFeePerGas),
     nonce |-> IF IsNil(t.nonce) THEN Undefined ELSE toHex(t.nonce),
     value |-> IF IsNil(t.value) THEN Undefined ELSE toHex(t.value),
     data |-> IF IsNil(t.data) THEN Undefined ELSE asBytes(t.data)]

\* TX_TYPE_FOR_HARDFORK[common.hardfork()].fromTxData(data, {common}),
\* signed with the key and serialized.
SignedTransaction(data, common, key) ==
    [type |-> "raw", txType |-> common.hardfork, chainId |-> common.chainId,
     data |-> data, key |-> key]

\* `!txOpts.to && (!txOpts.data || txOpts.data == '0x')`
NoDestination(txOpts) ==
    ~Truthy(txOpts.to) /\ (~Truthy(txOpts.data) \/ txOpts.data = Str("0x"))

\* The resolve() call the pipeline awaits.
TxResolver == 1

\* sendTx leaving every transaction to the provider to sign.
Submit_ProviderSigns(t) ==
    TxIssue(t, "submit", "eth_sendTransaction",
            SendObject(normalizeTxOpts(t.txOpts)))

\* sendTx, last step (lines 344-352): sign and submit raw when a key was
\* given, otherwise hand the transaction to the provider.
Submit(t) ==
    IF Truthy(t.opts.key)
    THEN TxIssue(t, "submit", "eth_sendRawTransaction",
                 asBytes(SignedTransaction(normalizeTxOpts(t.txOpts), t.common,
                                           t.opts.key)))
    ELSE TxIssue(t, "submit", "eth_sendTransaction",
                 SendObject(normalizeTxOpts(t.txOpts)))

\* sendTx lines 334-339: the fee cap, unless the caller gave one.
FeesBase(t) ==
    IF IsNil(t.txOpts.maxFeePerGas)
    THEN TxIssue(t, "getBaseFee", "eth_getBlockByNumber", Str("pending"))
    ELSE Submit(t)

\* sendTx lines 329-343: the fee fields of the hard fork.
Fees(t) ==
    IF t.common = Undefined
    THEN TxThrow(t, "TypeError: Cannot read property 'hardfork' of undefined")
    ELSE IF t.common.hardfork = "london"
    THEN IF IsNil(t.txOpts.maxPriorityFeePerGas)
         THEN TxIssue(t, "getMaxPriorityFee", "eth_maxPriorityFeePerGas",
                      Undefined)
         ELSE FeesBase(t)
    ELSE IF IsNil(t.txOpts.gasPrice)
         THEN TxIssue(t, "getGasPrice", "eth_gasPrice", Undefined)
         ELSE Submit(t)

\* sendTx lines 327-328: the chain id, from the instance's memo.
ChainIdOf(t) ==
    [t EXCEPT !.txOpts.chainId = IF ~Truthy(@) THEN instChainId ELSE @,
              !.pc = "fees"]

\* estimateGasRaw up to its request (lines 228-238).
EstimateGasRaw(t) ==
    TxIssue(t, "estimateGas", "eth_estimateGas",
            CallObject([normalizeTxOpts(t.txOpts) EXCEPT !.gas = Undefined]))

\* sendTx lines 325-326: estimate the gas limit unless the caller gave one.
Gas(t) ==
    IF ~Truthy(t.txOpts.gasLimit) THEN EstimateGasRaw(t)
    ELSE [t EXCEPT !.pc = "chainId"]

\* sendTx taking a supplied nonce only when it is truthy.
Nonce_Truthy(t) ==
    IF Truthy(t.opts.nonce)
    THEN [t EXCEPT !.txOpts.nonce = t.opts.nonce, !.pc = "gas"]
    ELSE TxIssue(t, "getTransactionCount", "eth_getTransactionCount",
                 asAddress(ResolveEntry(t.txOpts.from).result))

\* sendTx lines 321-324: the nonce.
Nonce(t) ==
    IF isNumber(t.opts.nonce)
    THEN [t EXCEPT !.txOpts.nonce = t.opts.nonce, !.pc = "gas"]
    ELSE TxIssue(t, "getTransactionCount", "eth_getTransactionCount",
                 asAddress(ResolveEntry(t.txOpts.from).result))

\* sendTx with the caller examined only where no nonce has to be fetched.
SendChecks_NonceFirst(t) ==
    IF NoDestination(t.txOpts)
    THEN TxThrow(t, "Transaction has no destination.")
    ELSE IF ~isNumber(t.opts.nonce)
    THEN TxIssue(t, "getTransactionCount", "eth_getTransactionCount",
                 t.txOpts.from)
    ELSE IF ~Truthy(t.txOpts.from)
    THEN TxThrow(t, "Cannot determine caller.")
    ELSE [t EXCEPT !.txOpts.nonce = t.opts.nonce, !.pc = "gas"]

\* sendTx lines 317-320: the two local checks, then the nonce.
SendChecks(t) ==
    IF ~Truthy(t.txOpts.from)
    THEN TxThrow(t, "Cannot determine caller.")
    ELSE IF NoDestination(t.txOpts)
    THEN TxThrow(t, "Transaction has no destination.")
    ELSE Nonce(t)

\* callTx lines 309-311: the destination check, then eth_call.
CallChecks(t) ==
    IF NoDestination(t.txOpts)
    THEN TxThrow(t, "Transaction has no destination.")
    ELSE TxIssue(t, "call", "eth_call", CallObject(normalizeTxOpts(t.txOpts)))

\* callTx lines 306-308: the block gas limit stands in for a missing limit.
CallBuilt(t) ==
    IF IsNil(t.txOpts.gasLimit)
    THEN TxIssue(t, "getBlockGasLimit", "eth_getBlockByNumber", Str("latest"))
    ELSE CallChecks(t)

\* estimateGas with the destination check callTx and sendTx make.
EstimateBuilt_Checked(t) ==
    IF NoDestination(t.txOpts)
    THEN TxThrow(t, "Transaction has no destination.")
    ELSE EstimateGasRaw(t)

\* estimateGas line 169: straight on to estimateGasRaw.
EstimateBuilt(t) == EstimateGasRaw(t)

\* The caller of createTransactionOpts goes on with the options built.
Built(t) ==
    CASE t.kind = "send" -> SendChecks(t)
      [] t.kind = "call" -> CallBuilt(t)
      [] t.kind = "estimateGas" -> EstimateBuilt(t)

\* The object createTransactionOpts returns (lines 254-264).
BuildTxOpts(t, to) ==
    [t EXCEPT !.pc = "built", !.txOpts =
        [NoTxOpts EXCEPT !.gasPrice = t.opts.gasPrice,
                         !.maxFeePerGas = t.opts.maxFeePerGas,
                         !.maxPriorityFeePerGas = t.opts.maxPriorityFeePerGas,
                         !.gasLimit = JsOr(t.opts.gasLimit, Undefined),
                         !.value = JsOr(t.opts.value, Num(0)),
                         !.data = t.opts.data,
                         !.to = to,
                         !.from = t.from]]

\* createTransactionOpts line 253, with `from` settled: a truthy `to` is
\* resolved, a missing one stays undefined.
AfterFrom(t, from) ==
    LET t1 == [t EXCEPT !.from = from] IN
    IF Truthy(t.to) THEN [t1 EXCEPT !.pc = "resolveTo"]
    ELSE BuildTxOpts(t1, Undefined)

\* The resolver call AfterFrom starts: inst.resolve(to, opts.block).
StartResolveTo(t) ==
    IF t.pc = "resolveTo"
    THEN [rp EXCEPT ![TxResolver] = ResolveEntry(tx.to)]
    ELSE rp

TxIdle == tx.pc = "idle"
NewTx(kind, to, opts) ==
    [IdleTx EXCEPT !.kind = kind, !.to = to, !.opts = opts]

\* sendTx up to the first await of _getChainCommon (lines 70-74): with a
\* block option the block number is the promise resolveBlockDirective
\* returned, not awaited; without one the head is asked for.
SendTx(to, opts) ==
    IF ~IsNil(opts.block)
    THEN [NewTx("send", to, opts) EXCEPT !.blockNumber = PromiseOf(opts.block),
                                         !.pc = "chainCommon"]
    ELSE TxIssue(NewTx("send", to, opts), "getBlockNumber",
                 "eth_blockNumber", Undefined)

\* send(to, opts)
Send(to, opts) ==
    /\ TxIdle
    /\ netChainId # 0
    /\ UNCHANGED notTx
    /\ tx' = SendTx(to, opts)
    /\ UNCHANGED <<resolverVars, instChainId>>

\* transfer(to, amount, opts): sendTx with the amount as the value option.
Transfer(to, amount, opts) ==
    /\ TxIdle
    /\ netChainId # 0
    /\ UNCHANGED notTx
    /\ tx' = SendTx(to, [opts EXCEPT !.value = amount])
    /\ UNCHANGED <<resolverVars, instChainId>>

\* call(to, opts): callTx with no block directive and no overrides.
Call(to, opts) ==
    /\ TxIdle
    /\ netChainId # 0
    /\ UNCHANGED notTx
    /\ tx' = [NewTx("call", to, opts) EXCEPT !.pc = "createTransactionOpts"]
    /\ UNCHANGED <<resolverVars, instChainId>>

\* estimateGas(to, opts)
EstimateGas(to, opts) ==
    /\ TxIdle
    /\ netChainId # 0
    /\ UNCHANGED notTx
    /\ tx' = [NewTx("estimateGas", to, opts) EXCEPT
                 !.pc = "createTransactionOpts"]
    /\ UNCHANGED <<resolverVars, instChainId>>

\* _getChainCommon lines 76-81, then on to createTransactionOpts.
WithCommon(t, chainId) ==
    [t EXCEPT !.common = ChainCommon(t.blockNumber, chainId),
              !.pc = "createTransactionOpts"]

\* _getChainCommon: the block number arrives (line 73); getChainId answers
\* from the instance's memo, from the client's memo, or asks the node.
TxGetBlockNumber ==
    /\ tx.pc = "getBlockNumber"
    /\ UNCHANGED notTx
    /\ \E n \in BlockNumbers : \E out \in SendOutcomes(Hex(n)) :
         LET t1 == [tx EXCEPT !.blockNumber = Num(toNumber(out.result))] IN
         IF ~out.ok
         THEN /\ tx' = TxThrow(tx, out.error)
              /\ UNCHANGED instChainId
         ELSE IF Truthy(instChainId)
         THEN /\ tx' = WithCommon(t1, toNumber(instChainId))
              /\ UNCHANGED instChainId
         ELSE IF rpcChainId # Null
         THEN /\ tx' = WithCommon(t1, toNumber(rpcChainId))
              /\ instChainId' = rpcChainId
         ELSE /\ tx' = TxIssue(t1, "getChainId", "eth_chainId", Undefined)
              /\ UNCHANGED instChainId
    /\ UNCHANGED <<resolverVars>>

\* _getChainCommon with a block option (lines 70-71, 75): on to getChainId
\* at once.
TxChainCommon ==
    /\ tx.pc = "chainCommon"
    /\ UNCHANGED notTx
    /\ IF Truthy(instChainId)
       THEN /\ tx' = WithCommon(tx, toNumber(instChainId))
            /\ UNCHANGED instChainId
       ELSE IF rpcChainId # Null
       THEN /\ tx' = WithCommon(tx, toNumber(rpcChainId))
            /\ instChainId' = rpcChainId
       ELSE /\ tx' = TxIssue(tx, "getChainId", "eth_chainId", Undefined)
            /\ UNCHANGED instChainId
    /\ UNCHANGED <<resolverVars>>

\* The chain id arrives: both memos are set.
TxGetChainId ==
    /\ tx.pc = "getChainId"
    /\ UNCHANGED notTx
    /\ \E out \in SendOutcomes(Hex(netChainId)) :
         IF ~out.ok
         THEN /\ tx' = TxThrow(tx, out.error)
              /\ UNCHANGED <<instChainId, rpcChainId>>
         ELSE /\ rpcChainId' = Num(toNumber(out.result))
              /\ instChainId' = Num(toNumber(out.result))
              /\ tx' = WithCommon(tx, toNumber(out.result))
    /\ UNCHANGED <<netChainId, rOpts, rcache, now, rp>>

\* createTransactionOpts lines 243-252: where `from` comes from.
CreateTransactionOpts ==
    /\ tx.pc = "createTransactionOpts"
    /\ UNCHANGED notTx
    /\ LET from == tx.opts.from IN
       tx' = IF from = Null THEN AfterFrom(tx, Undefined)
             ELSE IF isString(from)
             THEN AfterFrom(tx, ResolveEntry(from).result)
             ELSE IF isNumber(from) THEN AfterFrom(tx, from)
             ELSE IF Truthy(tx.opts.key)
             THEN AfterFrom(tx, privateKeyToAddress(tx.opts.key))
             ELSE TxIssue(tx, "getDefaultAccount", "eth_accounts", Undefined)
    /\ rp' = StartResolveTo(tx')
    /\ UNCHANGED <<netChainId, rpcChainId, rOpts, rcache, now, instChainId>>

\* getDefaultAccount: _.first of the accounts the node lists.
TxGetDefaultAccount ==
    /\ tx.pc = "getDefaultAccount"
    /\ UNCHANGED notTx
    /\ \E accounts \in AccountLists :
       \E out \in SendOutcomes([type |-> "array", items |-> accounts]) :
         tx' = IF ~out.ok THEN TxThrow(tx, out.error)
               ELSE AfterFrom([tx EXCEPT !.accounts = out.result],
                              IF out.result.items = <<>> THEN Undefined
                              ELSE Head(out.result.items))
    /\ rp' = StartResolveTo(tx')
    /\ UNCHANGED <<netChainId, rpcChainId, rOpts, rcache, now, instChainId>>

\* The resolution of `to` settles; its requests went out in between.
TxResolveTo ==
    /\ tx.pc = "resolveTo"
    /\ UNCHANGED notTx
    /\ rp[TxResolver].pc \in {"returned", "thrown"}
    /\ LET r == rp[TxResolver]
           t1 == [tx EXCEPT !.log = @ \o r.log] IN
       tx' = IF r.pc = "thrown" THEN TxThrow(t1, r.error)
             ELSE BuildTxOpts(t1, r.result)
    /\ rp' = [rp EXCEPT ![TxResolver] = IdleResolve]
    /\ UNCHANGED <<netChainId, rpcChainId, rOpts, rcache, now, instChainId>>

\* createTransactionOpts has returned: the caller's checks and next request.
TxBuilt ==
    /\ tx.pc = "built"
    /\ UNCHANGED notTx
    /\ tx' = Built(tx)
    /\ UNCHANGED <<resolverVars, instChainId>>

\* sendTx has its nonce: on to the gas limit.
TxGas ==
    /\ tx.pc = "gas"
    /\ UNCHANGED notTx
    /\ tx' = Gas(tx)
    /\ UNCHANGED <<resolverVars, instChainId>>

\* txOpts.chainId = await inst._chainId
TxChainId ==
    /\ tx.pc = "chainId"
    /\ UNCHANGED notTx
    /\ tx' = ChainIdOf(tx)
    /\ UNCHANGED <<resolverVars, instChainId>>

\* sendTx has its chain id: on to the fee fields.
TxFees ==
    /\ tx.pc = "fees"
    /\ UNCHANGED notTx
    /\ tx' = Fees(tx)
    /\ UNCHANGED <<resolverVars, instChainId>>

\* The transaction count arrives (line 324).
TxGetTransactionCount ==
    /\ tx.pc = "getTransactionCount"
    /\ UNCHANGED notTx
    /\ \E out \in SendOutcomes(
                  Hex(TransactionCountOf(tx.log[Len(tx.log)].params))) :
         tx' = IF ~out.ok THEN TxThrow(tx, out.error)
               ELSE [tx EXCEPT !.txOpts.nonce = Num(toNumber(out.result)),
                                !.pc = "gas"]
    /\ UNCHANGED <<resolverVars, instChainId>>

\* The estimate arrives (estimateGasRaw lines 232-239): estimateGas returns
\* it with the bonus, sendTx takes it as the gas limit.
TxEstimateGas ==
    /\ tx.pc = "estimateGas"
    /\ UNCHANGED notTx
    /\ \E out \in SendOutcomes(Hex(NodeGasEstimate)) :
         LET gas == GasWithBonus(toNumber(out.result),
                                 BonusOf(tx.opts.gasBonus, gasBonus)) IN
         tx' = IF ~out.ok THEN TxThrow(tx, out.error)
               ELSE IF tx.kind = "estimateGas" THEN TxReturn(tx, gas)
               ELSE [tx EXCEPT !.txOpts.gasLimit = gas, !.pc = "chainId"]
    /\ UNCHANGED <<resolverVars, instChainId>>

\* _getMaxPriorityFeeWithBonus (lines 155-159, 330-332).
TxGetMaxPriorityFee ==
    /\ tx.pc = "getMaxPriorityFee"
    /\ UNCHANGED notTx
    /\ \E out \in SendOutcomes(Hex(NodeMaxPriorityFee)) :
         tx' = IF ~out.ok THEN TxThrow(tx, out.error)
               ELSE FeesBase([tx EXCEPT !.txOpts.maxPriorityFeePerGas =
                                WithBonus(toUnsigned(out.result),
                                          BonusOf(tx.opts.gasPriceBonus,
                                                  gasPriceBonus))])
    /\ UNCHANGED <<resolverVars, instChainId>>

\* _getBaseFeeWithBonus of the pending block, plus the priority fee
\* (lines 161-165, 334-339).
TxGetBaseFee ==
    /\ tx.pc = "getBaseFee"
    /\ UNCHANGED notTx
    /\ \E out \in SendOutcomes(RawBlock) :
         LET base == WithBonus(normalizeBlock(out.result).baseFeePerGas,
                               BonusOf(tx.opts.gasPriceBonus, gasPriceBonus))
         IN
         tx' = IF ~out.ok THEN TxThrow(tx, out.error)
               ELSE Submit([tx EXCEPT !.txOpts.maxFeePerGas =
                              Dec(toNumber(base)
                                  + toNumber(tx.txOpts.maxPriorityFeePerGas))])
    /\ UNCHANGED <<resolverVars, instChainId>>

\* _getGasPriceWithBonus (lines 149-153, 341-342).
TxGetGasPrice ==
    /\ tx.pc = "getGasPrice"
    /\ UNCHANGED notTx
    /\ \E out \in SendOutcomes(Hex(NodeGasPrice)) :
         tx' = IF ~out.ok THEN TxThrow(tx, out.error)
               ELSE Submit([tx EXCEPT !.txOpts.gasPrice =
                              WithBonus(toUnsigned(out.result),
                                        BonusOf(tx.opts.gasPriceBonus,
                                                gasPriceBonus))])
    /\ UNCHANGED <<resolverVars, instChainId>>

\* The node answers the submission with the transaction hash.
TxSubmit ==
    /\ tx.pc = "submit"
    /\ UNCHANGED notTx
    /\ \E out \in SendOutcomes(TxHash) :
         tx' = IF ~out.ok THEN TxThrow(tx, out.error)
               ELSE TxReturn(tx, out.result)
    /\ UNCHANGED <<resolverVars, instChainId>>

\* getBlockGasLimit: the latest block arrives (lines 220-226, 307).
TxGetBlockGasLimit ==
    /\ tx.pc = "getBlockGasLimit"
    /\ UNCHANGED notTx
    /\ \E out \in SendOutcomes(RawBlock) :
         tx' = IF ~out.ok THEN TxThrow(tx, out.error)
               ELSE CallChecks([tx EXCEPT !.txOpts.gasLimit =
                                  normalizeBlock(out.result).gasLimit])
    /\ UNCHANGED <<resolverVars, instChainId>>

\* eth_call answers (line 311).
TxCall ==
    /\ tx.pc = "call"
    /\ UNCHANGED notTx
    /\ \E out \in SendOutcomes(CallResult) :
         tx' = IF ~out.ok THEN TxThrow(tx, out.error)
               ELSE TxReturn(tx, out.result)
    /\ UNCHANGED <<resolverVars, instChainId>>

\* The caller has the outcome; the instance is free for the next operation.
TxSettled ==
    /\ tx.pc \in {"returned", "thrown"}
    /\ UNCHANGED notTx
    /\ tx' = IdleTx
    /\ UNCHANGED <<resolverVars, instChainId>>

TxInit ==
    /\ instChainId = Undefined
    /\ tx = IdleTx

TxNext ==
    \/ \E c \in ChainIds : NewResolver(rOpts, c)
    \/ \E to \in TxDestinations, opts \in TxOptions : Send(to, opts)
    \/ \E to \in TxDestinations, amount \in Amounts,
          opts \in TransferOptions : Transfer(to, amount, opts)
    \/ \E to \in TxDestinations, opts \in CallOptions : Call(to, opts)
    \/ \E to \in TxDestinations, opts \in CallOptions : EstimateGas(to, opts)
    \/ \E opts \in BlockOptions : Send(Address("b1", "lower"), opts)
    \/ \E opts \in BonusOptions : Send(Address("b1", "lower"), opts)
    \/ \E opts \in BonusOptions : EstimateGas(Address("b1", "lower"), opts)
    \/ TxGetBlockNumber
    \/ TxChainCommon
    \/ TxGetChainId
    \/ CreateTransactionOpts
    \/ TxGetDefaultAccount
    \/ RGetChainId(TxResolver)
    \/ RGetResolver(TxResolver)
    \/ RResolveHash(TxResolver)
    \/ RGetTTL(TxResolver)
    \/ TxResolveTo
    \/ TxBuilt
    \/ TxGas
    \/ TxChainId
    \/ TxFees
    \/ TxGetTransactionCount
    \/ TxEstimateGas
    \/ TxGetMaxPriorityFee
    \/ TxGetBaseFee
    \/ TxGetGasPrice
    \/ TxSubmit
    \/ TxGetBlockGasLimit
    \/ TxCall
    \/ TxSettled

(***************************************************************************)
(* Block directives: FlexEther.resolveBlockDirective and getBalance.       *)
(***************************************************************************)
\* The heads the node may report.
MaxHead == 4
Heads == 0 .. MaxHead
NodeBalance == 77

BlockTags == {Str("latest"), Str("pending"), Str("earliest")}
\* The directives a caller passes: none, the tags, numbers from below
\* minus the head to above zero, and values that are no directive.
BlockDirectives ==
    {Undefined, Null, Str("0x10")} \cup BlockTags
        \cup {Num(n) : n \in (0 - MaxHead - 1) .. 2}

OffsetTooLarge == "Block number offset is too large"
InvalidDirective == "Invalid block directive"
InvalidAddress == "Invalid address"

\* util.asHex, util.asBlockNumber
asHex(v) == Hex(toNumber(v))
asBlockNumber(v) ==
    IF IsNil(v) THEN Str("latest")
    ELSE IF v \in BlockTags THEN v
    ELSE asHex(v)

\* A 32-byte hash as a hex string, and util.isHash / util.asHash on the
\* values the model passes.
BlockHash == Str("0x32bytehash")
isHash(v) == v = BlockHash
asHash(v) == v

\* The directive after the parameter default: -1 for resolveBlockDirective,
\* 'latest' for getBalance and getBlock.
Directive(t) ==
    IF t.opts.block # Undefined THEN t.opts.block
    ELSE IF t.kind \in {"getBalance", "getBlock"} THEN Str("latest")
    ELSE Num(-1)

\* RpcClient.getBlock up to its await: by hash or by number.
RpcGetBlock(t, numberOrHash) ==
    IF isHash(numberOrHash)
    THEN TxIssue(t, "getBlock", "eth_getBlockByHash",
                 [hash |-> asHash(numberOrHash)])
    ELSE TxIssue(t, "getBlock", "eth_getBlockByNumber",
                 [blockNumber |-> asBlockNumber(numberOrHash)])

\* The offset counted from the block before the head.
OffsetBlock_FromParent(n, block) == n + block
\* n += block + 1
OffsetBlock(n, block) == n + block + 1

\* Once the directive is resolved to n: resolveBlockDirective returns it,
\* getBalance asks the node for the balance at it, getBlock for the block.
Directed(t, n) ==
    IF t.kind = "getBalance"
    THEN TxIssue(t, "getBalance", "eth_getBalance",
                 [by |-> asAddress(t.from), blockNumber |-> asBlockNumber(n)])
    ELSE IF t.kind = "getBlock" THEN RpcGetBlock(t, n)
    ELSE TxReturn(t, n)

\* resolveBlockDirective up to its await (lines 195-211).
BlockDirective(t) ==
    LET block == Directive(t) IN
    IF block \in BlockTags THEN Directed(t, block)
    ELSE IF isNumber(block)
    THEN IF block.val < 0
         THEN TxIssue(t, "directive", "eth_blockNumber", Undefined)
         ELSE Directed(t, block)
    ELSE TxThrow(t, InvalidDirective)

\* resolveBlockDirective(block)
ResolveBlockDirective(block) ==
    /\ TxIdle
    /\ UNCHANGED notTx
    /\ tx' = BlockDirective(NewTx("resolveBlockDirective", Undefined,
                                  [NoOptions EXCEPT !.block = block]))
    /\ UNCHANGED <<resolverVars, instChainId>>

\* getBalance(addr, block): the address is resolved first (an address
\* resolves to its checksummed form without a request), then the directive.
GetBalance(addr, block) ==
    /\ TxIdle
    /\ UNCHANGED notTx
    /\ LET t == NewTx("getBalance", addr, [NoOptions EXCEPT !.block = block])
       IN  tx' = IF ~Truthy(addr) THEN TxThrow(t, InvalidAddress)
                 ELSE BlockDirective([t EXCEPT
                                        !.from = toChecksumAddress(addr)])
    /\ UNCHANGED <<resolverVars, instChainId>>

\* getBlock(numberOrHash): rpc.getBlock(await resolveBlockDirective(...)).
GetBlock(numberOrHash) ==
    /\ TxIdle
    /\ UNCHANGED notTx
    /\ tx' = BlockDirective(NewTx("getBlock", Undefined,
                                  [NoOptions EXCEPT !.block = numberOrHash]))
    /\ UNCHANGED <<resolverVars, instChainId>>

\* RpcClient.getBlock: the block arrives and is normalized.
BlockGetBlock ==
    /\ tx.pc = "getBlock"
    /\ UNCHANGED notTx
    /\ \E out \in SendOutcomes(RawBlock) :
         tx' = IF ~out.ok THEN TxThrow(tx, out.error)
               ELSE TxReturn(tx, normalizeBlock(out.result))
    /\ UNCHANGED <<resolverVars, instChainId>>

\* The head arrives (lines 200-206).
BlockGetBlockNumber ==
    /\ tx.pc = "directive"
    /\ UNCHANGED notTx
    /\ \E h \in Heads : \E out \in SendOutcomes(Hex(h)) :
         LET t1 == [tx EXCEPT !.blockNumber = Num(toNumber(out.result))]
             n == OffsetBlock(toNumber(out.result), Directive(tx).val)
         IN  tx' = IF ~out.ok THEN TxThrow(tx, out.error)
                   ELSE IF n <= 0 THEN TxThrow(t1, OffsetTooLarge)
                   ELSE Directed(t1, Num(n))
    /\ UNCHANGED <<resolverVars, instChainId>>

\* RpcClient.getBalance: the balance arrives.
BlockGetBalance ==
    /\ tx.pc = "getBalance"
    /\ UNCHANGED notTx
    /\ \E out \in SendOutcomes(Hex(NodeBalance)) :
         tx' = IF ~out.ok THEN TxThrow(tx, out.error)
               ELSE TxReturn(tx, toUnsigned(out.result))
    /\ UNCHANGED <<resolverVars, instChainId>>

BlockNext ==
    \/ \E block \in BlockDirectives : ResolveBlockDirective(block)
    \/ \E addr \in {Undefined, Address("b1", "lower")},
          block \in BlockDirectives : GetBalance(addr, block)
    \/ \E block \in BlockDirectives \cup {BlockHash} : GetBlock(block)
    \/ BlockGetBlockNumber
    \/ BlockGetBalance
    \/ BlockGetBlock
    \/ TxSettled

Init ==
    /\ TrackerInit
    /\ RpcInit
    /\ ResolverInit
    /\ TxInit

TrackerStep ==
    \/ \E n \in MinConfirmationChoices : Confirmed(1, n)
    \/ \E i \in Trackers : AwaitTxHash(i)
    \/ \E i \in Trackers : GetTransactionReceipt(i)
    \/ \E i \in Trackers : GetBlockNumber(i)
    \/ \E i \in Trackers : TimerFires(i)

TrackerNext ==
    \/ \E f \in Trackers : CreateTransactionPromise(f)
    \/ SubmitResolves
    \/ SubmitRejects
    \/ MineBlock
    \/ MineTransaction
    \/ Reorg
    \/ TrackerStep

SpecTracker == Init /\ [][TrackerNext]_vars

\* One confirmed(3) loop, observed poll by poll.
PollsNext ==
    \/ CreateTransactionPromise(1)
    \/ SubmitResolves
    \/ MineBlock
    \/ MineTransaction
    \/ Reorg
    \/ Confirmed(1, 3)
    \/ AwaitTxHash(1)
    \/ ObservedReceipt(1)
    \/ ObservedBlockNumber(1)
    \/ TimerFires(1)

SpecPolls == Init /\ [][PollsNext]_vars

SpecRpc == Init /\ [][RpcNext]_vars
SpecResolver == Init /\ [][ResolverNext]_vars

\* C3: a resolve(name) that finds an unexpired cache entry issues no eth_call
\* and returns the address of that entry, which is the address the
\* resolution that stored it returned.
C3_CacheHitReturnsAddress ==
    [][\A p \in Resolvers :
        (rp[p].pc = "getChainId" /\ rp'[p].pc = "returned" /\ rp'[p].hit) =>
            /\ EthCalls(rp'[p]) = {}
            /\ rp'[p].result =
                 rcache[<<rp'[p].chainId, hashName(rp[p].name, FALSE)>>].address
      ]_vars

Finished(c) == cpc[c] \in {"returned", "thrown"}

\* C4: a call whose response carries an id other than the one it sent
\* throws the correlation-mismatch error and returns nothing of the
\* response, also when the response carries an error object or a result.
C4_CorrelationMismatchFails ==
    \A c \in Calls :
        (Finished(c) /\ cResp[c].id # cid[c]) =>
            /\ cpc[c] = "thrown"
            /\ cOut[c].error = RpcIdMismatch
            /\ cOut[c].result = Undefined

\* A call has thrown the mismatch error on a response that carried both an
\* error object and a result.
C4_Witness ==
    \E c \in Calls :
        /\ cpc[c] = "thrown"
        /\ cResp[c].id # cid[c]
        /\ cResp[c].error = RemoteError
        /\ cResp[c].result = RpcResult(cResp[c].madeFor)
        /\ cOut[c].error = RpcIdMismatch

\* C5: no two calls of one client ever use the same request id, and a call
\* never returns the result of a response that the transport made for
\* another call (a response echoing the id of the request it answers).
C5_RequestIdsUnique ==
    /\ \A c, d \in Calls :
         (c # d /\ cpc[c] # "idle" /\ cpc[d] # "idle") => cid[c] # cid[d]
    /\ \A c \in Calls :
         (cpc[c] = "returned" /\ cResp[c].id = cid[cResp[c].madeFor])
            => cResp[c].madeFor = c

\* The event loop runs every continuation whose promise has settled and
\* every timer that is due; the node answers every request.
SpecTrackerFair ==
    /\ Init
    /\ [][TrackerNext]_vars
    /\ \A i \in Trackers :
         /\ WF_vars(AwaitTxHash(i))
         /\ WF_vars(GetTransactionReceipt(i))
         /\ WF_vars(GetBlockNumber(i))
         /\ WF_vars(TimerFires(i))

Settled(i) == tpc[i] \in {"resolved", "rejected"}

StablyConfirmed(i) ==
    /\ txHashPromise.state = "resolved"
    /\ chainReceipt # Null
    /\ head - toNumber(chainReceipt.blockNumber) >= tMin[i]

\* C2: if the hash was obtained, the transaction ends up mined for good with
\* the head at least N blocks past its receipt, and confirmed(N) was asked
\* for, then confirmed(N) eventually resolves, unless an RPC call failed and
\* rejected it.
C2_EventuallyConfirmed ==
    \A i \in Trackers :
        (<>[]StablyConfirmed(i) /\ <>(tpc[i] \notin {"off", "idle"}))
            => <>(\/ tpc[i] = "resolved"
                  \/ tpc[i] = "rejected" /\ tOutcome[i] \in RpcErrors)

\* A confirmed(3) has resolved with the head exactly three blocks past the
\* receipt, the transaction still mined there.
C2_Witness ==
    /\ tpc[1] = "resolved"
    /\ tMin[1] = 3
    /\ StablyConfirmed(1)
    /\ head = tOutcome[1].blockNumber + 3

\* C6 as stated: the receipt observation point never resolves normally with
\* a receipt whose status flag says failure.
C6_FailedReceiptNotResolved ==
    tpc[0] = "resolved" => tOutcome[0].status # 0

\* C6 amended: a poll of the receipt observation point that fetched a receipt
\* with the failure status resolves with that very receipt (status 0), like
\* any other; the only rejections are RPC errors.
C6_FailedReceiptResolves ==
    [][(/\ tpc[0] = "getBlockNumber"
        /\ tpc'[0] # "getBlockNumber"
        /\ Truthy(tReceipt[0])
        /\ tReceipt[0].status = 0) =>
            \/ tpc'[0] = "resolved" /\ tOutcome'[0] = tReceipt[0]
            \/ tpc'[0] = "rejected" /\ tOutcome'[0] \in RpcErrors]_vars

\* The receipt observation point has resolved with a failed receipt.
C6_Witness ==
    /\ tpc[0] = "resolved"
    /\ tOutcome[0].status = 0
    /\ chainReceipt # Null

\* C7: a poll that finds no receipt never fails the loop: the receipt fetch
\* passes null on, the iteration ends on the timer, and the timer leads to
\* the next receipt fetch; every receipt fetch takes the node's receipt of
\* that moment, so the count is computed from the newly fetched block.  The
\* only rejections are RPC errors.
C7_NoReceiptIsNotAnError ==
    [][\A i \in Trackers :
        /\ (tpc[i] = "getReceipt" /\ tpc'[i] # "getReceipt") =>
              \/ /\ tpc'[i] = "getBlockNumber"
                 /\ tReceipt'[i] = ReceiptOf(chainReceipt)
              \/ tpc'[i] = "rejected" /\ tOutcome'[i] \in RpcErrors
        /\ (tpc[i] = "getBlockNumber" /\ tReceipt[i] = Null
                /\ tpc'[i] # "getBlockNumber") =>
              \/ tpc'[i] = "timer"
              \/ tpc'[i] = "rejected" /\ tOutcome'[i] \in RpcErrors
        /\ (tpc[i] = "timer" /\ tpc'[i] # "timer") => tpc'[i] = "getReceipt"
      ]_vars

\* A loop saw a receipt, then none (reorg), then a receipt at a later block,
\* and resolved with the later one.
C7_Witness ==
    \E i \in Trackers :
        /\ tSeen[i].first # NoReceiptSeen
        /\ tSeen[i].lost
        /\ tpc[i] = "resolved"
        /\ tOutcome[i].blockNumber > tSeen[i].first

\* C8: txId is the submission's promise: it resolves with the hash the
\* submission returned; no loop issues a receipt fetch before the hash is
\* known, and no loop settles before txId has.
C8_TxIdFirst ==
    /\ txId.state = "resolved" => txId.value = TxHash
    /\ \A i \in Trackers :
         /\ tPolled[i] => txId.state = "resolved"
         /\ Settled(i) => txId.state # "pending"

\* txId has resolved and no receipt or block number has been fetched.
C8_Witness ==
    /\ txId.state = "resolved"
    /\ txId.value = TxHash
    /\ \A i \in Trackers : ~tPolled[i] /\ tpc[i] \in {"off", "idle", "awaitHash"}

SpecTx == Init /\ [][TxNext]_vars
SpecBlock == Init /\ [][BlockNext]_vars

\* createTransactionOpts has returned its object.
TxOptsBuilt(t) == t.txOpts # NoTxOpts /\ t.pc # "built"
EmptyAccounts == [type |-> "array", items |-> <<>>]
CannotDetermineCaller == "Cannot determine caller."
NoDestinationError == "Transaction has no destination."

\* C9: a send with no from and no key whose default-account lookup returned
\* an empty list has issued no nonce, gas-estimate, gas-price, fee or
\* submission request, and once its options are built (the destination, if
\* any, resolved) it has failed with 'Cannot determine caller.'.
C9_NoCallerFailsBeforeRequests ==
    (tx.kind = "send" /\ tx.opts.from = Undefined /\ tx.opts.key = Undefined
        /\ tx.accounts = EmptyAccounts) =>
        /\ Methods(tx) \cap {"eth_getTransactionCount", "eth_estimateGas",
                              "eth_gasPrice", "eth_maxPriorityFeePerGas",
                              "eth_getBlockByNumber", "eth_sendTransaction",
                              "eth_sendRawTransaction"} = {}
        /\ TxOptsBuilt(tx) =>
              (tx.pc = "thrown" /\ tx.error = CannotDetermineCaller)

\* C9: such a send has failed, after the account lookup and after the
\* resolver's requests for a named destination.
C9_Witness ==
    /\ tx.kind = "send" /\ tx.opts.from = Undefined /\ tx.opts.key = Undefined
    /\ tx.accounts = EmptyAccounts
    /\ tx.to = Name(<<"ethereum", "eth">>)
    /\ tx.pc = "thrown" /\ tx.error = CannotDetermineCaller
    /\ {"eth_accounts", "eth_call"} \subseteq Methods(tx)

\* C10: a call, estimateGas or send with no `to` and with data missing or
\* '0x' issues no eth_call, eth_estimateGas or submission request, never
\* returns a value, and once its options are built (and, for send, the
\* caller is known; for call, the gas limit is known) it has failed with
\* 'Transaction has no destination.'.
C10_NoDestinationFails ==
    (tx.kind \in {"send", "call", "estimateGas"} /\ tx.to = Undefined
        /\ tx.opts.data \in {Undefined, Str("0x")}) =>
        /\ Methods(tx) \cap {"eth_call", "eth_estimateGas",
                              "eth_sendTransaction",
                              "eth_sendRawTransaction"} = {}
        /\ tx.pc # "returned"
        /\ (TxOptsBuilt(tx) /\ tx.pc # "getBlockGasLimit") =>
              /\ tx.pc = "thrown"
              /\ tx.error \in {NoDestinationError, CannotDetermineCaller,
                                RpcIdMismatch, RpcRemoteError}
              /\ (tx.kind = "estimateGas" => tx.error = NoDestinationError)

\* C11: a send or call that fails with a local validation error (no
\* destination, no caller) has handed no request to the transport: its
\* request log is empty at the time of failure.
C11_LocalErrorsBeforeAnyRequest ==
    (tx.kind \in {"send", "call"} /\ tx.pc = "thrown"
        /\ tx.error \in {NoDestinationError, CannotDetermineCaller}) =>
        tx.log = <<>>

\* C13: in a send given both a key and a from address, the sender the
\* transaction is built with, and the account whose transaction count is
\* asked for, is the address derived from the key.
C13_KeyOverridesFrom ==
    (tx.kind = "send" /\ Truthy(tx.opts.key) /\ isString(tx.opts.from)
        /\ TxOptsBuilt(tx)) =>
        /\ tx.txOpts.from = privateKeyToAddress(tx.opts.key)
        /\ \A k \in 1 .. Len(tx.log) :
              tx.log[k].method = "eth_getTransactionCount" =>
                  tx.log[k].params = privateKeyToAddress(tx.opts.key)

\* C16: a raw transaction submitted by send is signed for the chain the
\* client is connected to.
C16_SignedForConnectedChain ==
    \A k \in 1 .. Len(tx.log) :
        tx.log[k].method = "eth_sendRawTransaction" =>
            tx.log[k].params.chainId = netChainId

\* The requests of the operation in progress that submit a transaction.
Submissions(t) ==
    {k \in 1 .. Len(t.log) :
        t.log[k].method \in {"eth_sendTransaction", "eth_sendRawTransaction"}}
\* The transaction fields a submission request carries.
Submitted(entry) ==
    IF entry.method = "eth_sendRawTransaction" THEN entry.params.data
    ELSE entry.params

\* C17: a transaction submitted by send carries the nonce of the options
\* when one was supplied (a number, 0 included), and then no transaction
\* count was asked for; otherwise it carries the transaction count the node
\* returned for the sender, asked for before the submission.
C17_NonceSuppliedOrFetched ==
    \A k \in Submissions(tx) :
        IF isNumber(tx.opts.nonce)
        THEN /\ Submitted(tx.log[k]).nonce = toHex(tx.opts.nonce)
             /\ "eth_getTransactionCount" \notin Methods(tx)
        ELSE /\ Submitted(tx.log[k]).nonce =
                    Hex(TransactionCountOf(tx.txOpts.from))
             /\ \E j \in 1 .. (k - 1) :
                    /\ tx.log[j].method = "eth_getTransactionCount"
                    /\ tx.log[j].params.hex = tx.txOpts.from.hex

\* C17: a send given nonce 0 has submitted its transaction with nonce 0.
C17_Witness ==
    /\ tx.kind = "send" /\ tx.opts.nonce = Num(0) /\ tx.pc = "returned"
    /\ \E k \in Submissions(tx) : Submitted(tx.log[k]).nonce = Hex(0)

\* C12: a send or transfer issues at most one submission request, and only
\* as its last request; the request is eth_sendRawTransaction exactly when a
\* key was supplied and eth_sendTransaction otherwise; a send whose
\* construction succeeded has issued one, a send that failed before has
\* issued none.
C12_OneSubmissionByKey ==
    tx.kind = "send" =>
        /\ Submissions(tx) \in {{}, {Len(tx.log)}}
        /\ \A k \in Submissions(tx) :
              tx.log[k].method = "eth_sendRawTransaction"
                  <=> Truthy(tx.opts.key)
        /\ (Submissions(tx) # {}) <=> (tx.pc = "submit" \/ tx.result = TxHash
                                        \/ (tx.pc = "thrown"
                                            /\ Len(tx.log) > 0
                                            /\ tx.log[Len(tx.log)].method \in
                                                 {"eth_sendTransaction",
                                                  "eth_sendRawTransaction"}))

\* C12: a transfer with a key has returned the hash of its raw submission.
C12_Witness ==
    /\ tx.kind = "send" /\ tx.opts.value = Num(5) /\ Truthy(tx.opts.key)
    /\ tx.pc = "returned"
    /\ tx.log[Len(tx.log)].method = "eth_sendRawTransaction"

\* The rule set of a chain at a target block: the first rule of the chain's
\* descending list that is active at the target, from the catch-all list
\* for a chain the table does not know.
RuleFor(chainId, target) ==
    LET forks == IF chainId \in DOMAIN HARD_FORKS_BY_CHAIN_ID
                 THEN HARD_FORKS_BY_CHAIN_ID[chainId] ELSE DefaultForks
        first == CHOOSE k \in 1 .. Len(forks) :
                    /\ forks[k].block <= target
                    /\ \A j \in 1 .. (k - 1) : forks[j].block > target
    IN  forks[first].common

\* C15: when the hardfork lookup of a send has returned, its rule set is
\* the rule of the connected chain at the target block: the block option
\* when the send has one, otherwise the head the node reported.
C15_HardforkRuleDefined ==
    (tx.kind = "send" /\ tx.pc = "createTransactionOpts") =>
        tx.common = RuleFor(netChainId,
                            IF isNumber(tx.opts.block) THEN tx.opts.block.val
                            ELSE tx.blockNumber.val)

\* C15 for sends without a block option.
C15_HardforkRuleAtHead ==
    (tx.kind = "send" /\ tx.pc = "createTransactionOpts"
        /\ IsNil(tx.opts.block)) =>
        tx.common = RuleFor(netChainId, tx.blockNumber.val)

\* a / b to the nearest integer, halves up, and a / b rounded up.
RoundDiv(a, b) == (2 * a + b) \div (2 * b)
CeilDiv(a, b) == -((-a) \div b)

\* The price bonus of a send, in thousandths: the per-call one when it is
\* a number, otherwise the instance's.
PriceBonus(t) ==
    IF isNumber(t.opts.gasPriceBonus) THEN t.opts.gasPriceBonus.val
    ELSE gasPriceBonus
\* round(price * (1 + bonus))
Rounded(price, t) == RoundDiv(price * (1000 + PriceBonus(t)), 1000)

\* The network query that fills each fee field.
FeeQuery ==
    [gasPrice |-> "eth_gasPrice", maxFeePerGas |-> "eth_getBlockByNumber",
     maxPriorityFeePerGas |-> "eth_maxPriorityFeePerGas"]

\* C14: a transaction submitted by send under the london rule carries, for
\* an unsupplied maxPriorityFeePerGas, the node's priority fee times
\* (1 + bonus) rounded, and for an unsupplied maxFeePerGas the pending
\* block's base fee times (1 + bonus) rounded plus the priority fee it
\* carries; under any other rule an unsupplied gasPrice is the node's gas
\* price times (1 + bonus) rounded; a fee field the caller supplied is
\* carried as supplied and its query is not sent.
C14_FeeDefaults ==
    \A k \in Submissions(tx) :
        LET s == Submitted(tx.log[k]) IN
        /\ tx.common.hardfork = "london" =>
            /\ IsNil(tx.opts.maxPriorityFeePerGas) =>
                 s.maxPriorityFeePerGas = Hex(Rounded(NodeMaxPriorityFee, tx))
            /\ IsNil(tx.opts.maxFeePerGas) =>
                 s.maxFeePerGas = Hex(Rounded(NodeBaseFee, tx)
                                      + s.maxPriorityFeePerGas.val)
        /\ tx.common.hardfork # "london" =>
            (IsNil(tx.opts.gasPrice) =>
                 s.gasPrice = Hex(Rounded(NodeGasPrice, tx)))
        /\ \A f \in DOMAIN FeeQuery :
            ~IsNil(tx.opts[f]) =>
                /\ s[f] = toHex(tx.opts[f])
                /\ FeeQuery[f] \notin Methods(tx)

\* C14: a london send without fee fields and without a per-call bonus has
\* submitted a priority fee of 101 (100.5 rounded) and a fee cap of 1006
\* (904.5 rounded, plus 101).
C14_Witness ==
    \E k \in Submissions(tx) :
        /\ tx.common.hardfork = "london"
        /\ IsNil(tx.opts.maxPriorityFeePerGas) /\ IsNil(tx.opts.maxFeePerGas)
        /\ Submitted(tx.log[k]).maxPriorityFeePerGas = Hex(101)
        /\ Submitted(tx.log[k]).maxFeePerGas = Hex(1006)

\* The gas bonus of a call, in thousandths: the per-call one when it is a
\* number, otherwise the instance's.
GasBonusOf(t) ==
    IF isNumber(t.opts.gasBonus) THEN t.opts.gasBonus.val ELSE gasBonus
\* ceil(g * (1 + b)) for the node's estimate g.
EstimateOf(t) == CeilDiv(NodeGasEstimate * (1000 + GasBonusOf(t)), 1000)

\* C19: every estimate request is sent with its gas field cleared;
\* estimateGas returns the node's estimate times (1 + bonus) rounded up,
\* the bonus being the per-call gasBonus when it is a number and the
\* instance's otherwise, and a send without a gas limit submits that value;
\* a send given a gas limit sends no estimate request and submits the
\* limit it was given.
C19_GasEstimate ==
    /\ \A k \in 1 .. Len(tx.log) :
         tx.log[k].method = "eth_estimateGas" =>
             tx.log[k].params.gas = Undefined
    /\ (tx.kind = "estimateGas" /\ tx.pc = "returned") =>
         tx.result = Num(EstimateOf(tx))
    /\ (tx.kind = "send" /\ Truthy(tx.opts.gasLimit)) =>
         "eth_estimateGas" \notin Methods(tx)
    /\ tx.kind = "send" =>
         \A k \in Submissions(tx) :
             Submitted(tx.log[k]).gas =
                 IF Truthy(tx.opts.gasLimit) THEN toHex(tx.opts.gasLimit)
                 ELSE Hex(EstimateOf(tx))

\* C19: estimateGas called with a gas limit and a per-call bonus of 0.25
\* has returned 26252 (26251.25 rounded up).
C19_Witness ==
    /\ tx.kind = "estimateGas" /\ tx.pc = "returned"
    /\ Truthy(tx.opts.gasLimit) /\ tx.opts.gasBonus = Num(250)
    /\ tx.result = Num(26252)

\* The eth_blockNumber requests of an operation.
BlockNumberRequests(t) ==
    {k \in 1 .. Len(t.log) : t.log[k].method = "eth_blockNumber"}
\* What a directive stands for once the node has reported head H: the head
\* for -1, H - N + 1 for -N, and the directive itself for a tag or a
\* non-negative number.
BlockMeant(t) ==
    LET d == Directive(t) IN
    IF isNumber(d) /\ d.val < 0 THEN Num(t.blockNumber.val - (0 - d.val) + 1)
    ELSE d
IsDirective(d) == d \in BlockTags \/ isNumber(d)

\* C18: a negative directive -N sends exactly one eth_blockNumber request
\* and, for the head H the node reports, resolves to H - N + 1 (H for -1),
\* failing with the offset error when that is 0 or less; a tag or a
\* non-negative number is returned as it is, with no request; getBalance
\* asks for the balance at the block its directive resolves to.
C18_BlockDirective ==
    LET d == Directive(tx) IN
    (tx.kind \in {"resolveBlockDirective", "getBalance"}
        /\ IsDirective(d) /\ tx.error # InvalidAddress) =>
        /\ IF isNumber(d) /\ d.val < 0
           THEN /\ Cardinality(BlockNumberRequests(tx)) = 1
                /\ tx.blockNumber # Undefined =>
                     IF BlockMeant(tx).val <= 0
                     THEN tx.pc = "thrown" /\ tx.error = OffsetTooLarge
                     ELSE tx.error # OffsetTooLarge
           ELSE /\ BlockNumberRequests(tx) = {}
                /\ tx.kind = "resolveBlockDirective" => tx.pc = "returned"
        /\ (tx.kind = "resolveBlockDirective" /\ tx.pc = "returned") =>
              tx.result = BlockMeant(tx)
        /\ \A k \in 1 .. Len(tx.log) :
              tx.log[k].method = "eth_getBalance" =>
                  tx.log[k].params.blockNumber =
                      IF isNumber(BlockMeant(tx))
                      THEN Hex(BlockMeant(tx).val) ELSE BlockMeant(tx)
        /\ (tx.kind = "getBalance" /\ tx.pc = "returned") =>
              "eth_getBalance" \in Methods(tx)

\* C18: getBalance with directive -3 at head 4 has returned the balance it
\* asked for at block 2.
C18_Witness ==
    /\ tx.kind = "getBalance" /\ tx.pc = "returned"
    /\ tx.opts.block = Num(-3) /\ tx.blockNumber = Num(4)
    /\ tx.log[Len(tx.log)].method = "eth_getBalance"
    /\ tx.log[Len(tx.log)].params.blockNumber = Hex(2)

C21_ZeroTTLNotCached ==
    [][\A p \in Resolvers :
        (rp[p].pc = "getTTL" /\ rp'[p].pc = "returned"
            /\ rp'[p].ttl.val <= 0) => rcache' = rcache
      ]_vars

\* C22: a step in which a resolve call fails leaves the cache as it was,
\* and every step that changes the cache is the return of a call whose
\* resolver lookup, address lookup and TTL lookup have all answered: it
\* sent three eth_call requests, holds a resolver and an address, and
\* changes only the entry of its own name.
C22_FailedResolveKeepsCache ==
    [][/\ \A p \in Resolvers :
            (rp[p].pc # "thrown" /\ rp'[p].pc = "thrown") => rcache' = rcache
       /\ rcache' # rcache =>
            \E p \in Resolvers :
                /\ rp[p].pc = "getTTL" /\ rp'[p].pc = "returned"
                /\ Cardinality(EthCalls(rp'[p])) = 3
                /\ isValidAddress(rp'[p].resolver)
                /\ isValidAddress(rp'[p].address)
                /\ rp'[p].ttl # Undefined
                /\ \A k \in CacheKeys :
                     rcache'[k] # rcache[k] =>
                        k = <<rp[p].chainId, hashName(rp[p].name, FALSE)>>
      ]_vars

\* C22: a call has failed in its TTL lookup on an RPC error while the
\* cache holds the entry of an earlier resolution of the same name, now
\* expired.
C22_Witness ==
    \E p \in Resolvers :
        /\ rp[p].pc = "thrown"
        /\ Cardinality(EthCalls(rp[p])) = 3
        /\ rcache[<<rp[p].chainId, hashName(rp[p].name, FALSE)>>] # Undefined

\* The eth_call requests of a resolution, in the order they were sent.
CallsOf(r) == SelectSeq(r.log, LAMBDA e : e.method = "eth_call")
\* The digest of a name's last two labels and of all its labels, lower-cased,
\* last label first.
TopLevelHash(name) ==
    LET n == Len(name.labels) IN
    [type |-> "hash",
     folded |-> <<toLowerCase(name.labels[n]), toLowerCase(name.labels[n - 1])>>]
FullHash(name) ==
    LET n == Len(name.labels) IN
    [type |-> "hash",
     folded |-> [k \in 1 .. n |-> toLowerCase(name.labels[n + 1 - k])]]
Unsupported == "ENS is not supported on chain"
NoResolver == "No resolver for ENS address"
ResolutionFailed == "Failed to resolve ENS address"
RpcErrorTexts == {RpcIdMismatch, RpcRemoteError}

\* C23: a resolution that missed the cache sends its eth_call requests in
\* the order resolver lookup at the registry with the top-level hash,
\* address lookup at the resolver with the full hash, TTL lookup at the
\* registry with the top-level hash; on a chain without a registry it fails
\* as unsupported with no eth_call sent; it sends the address lookup only
\* with a valid non-null resolver and otherwise fails as no-resolver after
\* one eth_call; it sends the TTL lookup only with a valid non-null address
\* and otherwise fails as resolution-failed after two.
C23_ProtocolOrder ==
    \A p \in Resolvers :
        LET r == rp[p]
            calls == CallsOf(r)
            n == Len(calls)
        IN  r.pc # "idle" =>
            /\ n <= 3
            /\ n >= 1 =>
                 /\ calls[1].to = ENS_ADDRESSES[r.chainId]
                 /\ calls[1].data.sig = RESOLVER_FN_SIG
                 /\ calls[1].data.arg = TopLevelHash(r.name)
                 /\ ~r.hit
            /\ n >= 2 =>
                 /\ isValidAddress(r.resolver) /\ r.resolver # NULL_ADDRESS
                 /\ calls[2].to = r.resolver
                 /\ calls[2].data.sig = ADDR_FN_SIG
                 /\ calls[2].data.arg = FullHash(r.name)
            /\ n = 3 =>
                 /\ isValidAddress(r.address) /\ r.address # NULL_ADDRESS
                 /\ calls[3].to = ENS_ADDRESSES[r.chainId]
                 /\ calls[3].data.sig = TTL_FN_SIG
                 /\ calls[3].data.arg = TopLevelHash(r.name)
            /\ (r.chainId # 0 /\ r.chainId \notin DOMAIN ENS_ADDRESSES) =>
                 r.pc = "thrown" /\ r.error = Unsupported
            /\ r.error = Unsupported => n = 0
            /\ r.error = NoResolver => n = 1
            /\ r.error = ResolutionFailed => n = 2
            /\ r.pc = "getResolver" => n = 1
            /\ r.pc = "resolveHash" => n = 2
            /\ r.pc = "getTTL" => n = 3
            /\ (r.pc = "returned" /\ ~r.hit /\ ~isValidAddress(r.name)) => n = 3
            /\ (r.pc = "thrown" /\ n = 1 /\ r.error \notin RpcErrorTexts) =>
                 r.error = NoResolver
            /\ (r.pc = "thrown" /\ n = 2 /\ r.error \notin RpcErrorTexts) =>
                 r.error = ResolutionFailed

\* C23: a resolution of a name of three labels has returned after its three
\* lookups.
C23_Witness ==
    \E p \in Resolvers :
        /\ rp[p].pc = "returned" /\ ~rp[p].hit
        /\ rp[p].name = Name(<<"wallet", "ethereum", "eth">>)
        /\ Len(CallsOf(rp[p])) = 3

\* C24: every eth_call of a resolution is executed against the block the
\* resolution was given, and against the default block when it was given
\* none.
C24_LookupsAtGivenBlock ==
    \A p \in Resolvers : \A k \in EthCalls(rp[p]) :
        rp[p].log[k].block =
            IF rp[p].block = Undefined THEN Str("latest")
            ELSE Hex(rp[p].block.val)

\* C25: a resolve of an input that is a valid address returns at once with
\* the checksummed form of that address, having sent no request, and the
\* step leaves the cache and the client's chain-id memo as they were.
C25_AddressResolvesLocally ==
    /\ [](\A p \in Resolvers :
            (rp[p].pc # "idle" /\ isValidAddress(rp[p].name)) =>
                /\ rp[p].pc = "returned"
                /\ rp[p].result = Address(rp[p].name.hex, "checksum")
                /\ rp[p].log = <<>>
                /\ ~rp[p].hit)
    /\ [][\A p \in Resolvers :
            (rp[p].pc = "idle" /\ rp'[p].pc # "idle"
                /\ isValidAddress(rp'[p].name)) =>
                    /\ rcache' = rcache
                    /\ rpcChainId' = rpcChainId]_vars

\* C25: on a chain without a registry, with the chain id never asked for,
\* a resolve of a lower-case address has returned its checksummed form.
C25_Witness ==
    \E p \in Resolvers :
        /\ rp[p].pc = "returned"
        /\ rp[p].name = Address("a1", "lower")
        /\ rp[p].result = Address("a1", "checksum")
        /\ netChainId = 5 /\ rpcChainId = Null

\* C26: the chain id a getChainId call of the client returned stays the
\* client's memo for good, and every getChainId call that runs once the
\* memo is set returns the memo and sends no eth_chainId request; the memo
\* is set by a call that sent the request, to the value that call returns.
C26_ChainIdMemoized ==
    [][/\ rpcChainId # Null =>
            /\ rpcChainId' = rpcChainId
            /\ \A p \in Resolvers :
                 (rp[p].pc = "getChainId" /\ rp'[p].pc # "getChainId") =>
                    /\ rp'[p].chainId = rpcChainId.val
                    /\ \A k \in 1 .. Len(rp'[p].log) :
                         rp'[p].log[k].method # "eth_chainId"
       /\ (rpcChainId = Null /\ rpcChainId' # Null) =>
            \E p \in Resolvers :
                /\ rp[p].pc = "getChainId"
                /\ rp'[p].chainId = rpcChainId'.val
                /\ rp'[p].log[1].method = "eth_chainId"
      ]_vars

\* C26: of two resolutions over one client the first asked the node for
\* the chain id and the second got the same chain id with no request.
C26_Witness ==
    /\ rp[1].chainId # 0 /\ rp[2].chainId = rp[1].chainId
    /\ Len(rp[1].log) > 0
    /\ rp[1].log[1].method = "eth_chainId"
    /\ \A k \in 1 .. Len(rp[2].log) : rp[2].log[k].method # "eth_chainId"

\* The error data is a map with a '0x' key whose value holds a return
\* payload.
Structured(d) ==
    /\ d.type = "object"
    /\ \E k \in 1 .. Len(d.entries) :
         d.entries[k].is0x /\ "return" \in DOMAIN d.entries[k].value
\* The return payload under the '0x' key.
InnerReturn(d) ==
    LET k == CHOOSE j \in 1 .. Len(d.entries) : d.entries[j].is0x
    IN  d.entries[k].value.return

\* C27: a call whose response carries its own id and an error object
\* throws the remote error and returns no result; when the error's data is
\* structured revert data the thrown error's errorReturnData is the inner
\* return payload, and when the error has no data it is undefined.
C27_ErrorResponseFails ==
    \A c \in Calls :
        (Finished(c) /\ cResp[c].id = cid[c] /\ cResp[c].error # NoError) =>
            /\ cpc[c] = "thrown"
            /\ cOut[c].error = RpcRemoteError
            /\ cOut[c].result = Undefined
            /\ Structured(cResp[c].error.data) =>
                 cOut[c].errorReturnData = InnerReturn(cResp[c].error.data)
            /\ cResp[c].error.data = Undefined =>
                 cOut[c].errorReturnData = Undefined

\* C27: a call has thrown on revert data and exposes the return payload.
C27_Witness ==
    \E c \in Calls :
        /\ cpc[c] = "thrown"
        /\ cResp[c].id = cid[c]
        /\ cResp[c].error.data = RevertData
        /\ cOut[c].errorReturnData = RevertReturn

\* C28: when a poll of an observed loop follows one that had a receipt and
\* no reorganisation happened between the two receipt fetches, the poll
\* has a receipt too and its count is at least the count of the one before.
C28_CountNonDecreasing ==
    [][\A i \in Trackers :
        (/\ tpc[i] = "getBlockNumber"
         /\ tpc'[i] \notin {"getBlockNumber", "rejected"}
         /\ tSeen[i].has
         /\ tSeen[i].at = tSeen[i].lastAt) =>
            /\ tSeen'[i].has
            /\ tSeen'[i].count >= tSeen[i].count
      ]_vars

\* C28: with no reorganisation since its last poll, which counted fewer,
\* a loop is about to count three confirmations or more.
C28_Witness ==
    /\ tpc[1] = "getBlockNumber"
    /\ tSeen[1].has /\ tSeen[1].at = tSeen[1].lastAt
    /\ Truthy(tReceipt[1])
    /\ head - tReceipt[1].blockNumber >= 3
    /\ head - tReceipt[1].blockNumber > tSeen[1].count

\* A poll after a reorganisation has counted less than the poll before it.
C28_CountDropsAcrossReorg ==
    /\ tpc[1] = "getBlockNumber"
    /\ tSeen[1].has /\ tSeen[1].at # tSeen[1].lastAt
    /\ Truthy(tReceipt[1])
    /\ head - tReceipt[1].blockNumber < tSeen[1].count

\* C29: the loop of confirmed() called without argument resolves only in a
\* poll that fetched a receipt and a block number at least 1 above the
\* receipt's block.
C29_DefaultWaitsForOne ==
    [][(tpc[0] # "resolved" /\ tpc'[0] = "resolved") =>
            /\ Truthy(tReceipt[0])
            /\ head - tReceipt[0].blockNumber >= 1]_vars

\* The maxGasPrice option the README documents for the constructor, set here
\* below the node's gas price.  No code of FlexEther reads it.
maxGasPrice == 1000

\* C30: the gas price of every transaction submitted by send or transfer is
\* at most the configured maxGasPrice.
C30_GasPriceClamped ==
    \A k \in Submissions(tx) :
        LET s == Submitted(tx.log[k]) IN
        ~IsNil(s.gasPrice) => s.gasPrice.val <= maxGasPrice

\* The labels of a name, lower-cased, and the last two of them.
LowerLabels(name) == [k \in 1 .. Len(name.labels) |-> toLowerCase(name.labels[k])]
LastTwoLower(name) ==
    SubSeq(LowerLabels(name), Len(name.labels) - 1, Len(name.labels))
\* The hashes a resolution has sent to the registry (resolver lookup and TTL
\* lookup) and to the resolver (address lookup).
RegistryHashes(r) ==
    {r.log[k].data.arg : k \in {j \in EthCalls(r) :
        r.log[j].data.sig \in {RESOLVER_FN_SIG, TTL_FN_SIG}}}
ResolverHashes(r) ==
    {r.log[k].data.arg : k \in {j \in EthCalls(r) :
        r.log[j].data.sig = ADDR_FN_SIG}}

\* C31: two resolutions of names of at least two labels that agree, letter
\* case aside, on their last two labels send the same hash to the registry
\* in the resolver lookup and in the TTL lookup, whatever their earlier
\* labels; the hash of the address lookup is the same exactly when the names
\* agree, letter case aside, on every label.
C31_TopLevelHashOfLastTwo ==
    \A p, q \in Resolvers :
        LET a == rp[p]
            b == rp[q]
        IN  (/\ a.pc # "idle" /\ b.pc # "idle"
             /\ ~isValidAddress(a.name) /\ ~isValidAddress(b.name)
             /\ ValidName(a.name) /\ ValidName(b.name)) =>
            /\ LastTwoLower(a.name) = LastTwoLower(b.name) =>
                 Cardinality(RegistryHashes(a) \cup RegistryHashes(b)) <= 1
            /\ \A x \in ResolverHashes(a), y \in ResolverHashes(b) :
                 (x = y) <=> (LowerLabels(a.name) = LowerLabels(b.name))

\* C31: the resolutions of wallet.ethereum.eth and of Ethereum.ETH have both
\* sent their three lookups: the same hash to the registry, different ones
\* to the resolver.
C31_Witness ==
    /\ rp[1].name = Name(<<"wallet", "ethereum", "eth">>)
    /\ rp[2].name = Name(<<"Ethereum", "ETH">>)
    /\ Len(CallsOf(rp[1])) = 3 /\ Len(CallsOf(rp[2])) = 3
    /\ RegistryHashes(rp[1]) = RegistryHashes(rp[2])
    /\ ResolverHashes(rp[1]) # ResolverHashes(rp[2])

\* C32: getBlock called with a 32-byte block hash sends an
\* eth_getBlockByHash request for that hash and, when the node answers,
\* returns the normalized block; it fails only with an RPC error.
C32_GetBlockByHash ==
    (tx.kind = "getBlock" /\ isHash(tx.opts.block)) =>
        /\ Len(tx.log) = 1
        /\ tx.log[1].method = "eth_getBlockByHash"
        /\ tx.log[1].params.hash = tx.opts.block
        /\ tx.pc = "returned" => tx.result = normalizeBlock(RawBlock)
        /\ tx.pc = "thrown" => tx.error \in {RpcIdMismatch, RpcRemoteError}

\* getBlock with a number has returned the normalized block after one
\* eth_getBlockByNumber request.
GetBlockByNumberReturned ==
    /\ tx.kind = "getBlock" /\ tx.pc = "returned"
    /\ tx.opts.block = Num(2)
    /\ tx.log[Len(tx.log)].method = "eth_getBlockByNumber"
    /\ tx.result = normalizeBlock(RawBlock)

\* C33: a loop issues a receipt fetch only after it obtained the hash or
\* after its timer fired: never straight after the fetches of the previous
\* iteration.
C33_TimerBetweenPolls ==
    [][\A i \in Trackers :
        (tpc[i] # "getReceipt" /\ tpc'[i] = "getReceipt") =>
            tpc[i] \in {"awaitHash", "timer"}]_vars

\* C34: while the node never has a receipt for the hash, a loop never
\* resolves, and once it has started polling it fetches the receipt again
\* and again for ever, unless an RPC call failed and rejected it.
C34_PollsForever ==
    \A i \in Trackers :
        [](chainReceipt = Null) =>
            /\ [](tpc[i] # "resolved")
            /\ <>tPolled[i] =>
                 \/ []<>(tpc[i] = "getReceipt")
                 \/ <>(tpc[i] = "rejected" /\ tOutcome[i] \in RpcErrors)

\* C34: a confirmed(3) loop is waiting on its timer after a poll that found
\* no receipt, the chain having reached its last block without the
\* transaction ever being mined.
C34_Witness ==
    /\ tpc[1] = "timer" /\ tMin[1] = 3 /\ tPolled[1]
    /\ chainReceipt = Null /\ reorgs = 0
    /\ head = MaxBlock

\* C35: a receipt fetch or a block-number fetch that fails rejects the
\* loop's promise in that very step with the error the call threw, a
\* transport, correlation or remote error; a fetch step ends in nothing but
\* the next stage of the iteration or that rejection, and a rejected loop
\* never moves again: it polls no more and keeps its error.
C35_PollErrorsRejectOnce ==
    [][\A i \in Trackers :
        /\ (tpc[i] \in {"getReceipt", "getBlockNumber"}
                /\ tpc'[i] = "rejected") =>
              /\ tOutcome'[i] \in RpcErrors
              /\ tReceipt'[i] = tReceipt[i]
        /\ (tpc[i] = "getReceipt" /\ tpc'[i] # tpc[i]) =>
              tpc'[i] \in {"getBlockNumber", "rejected"}
        /\ (tpc[i] = "getBlockNumber" /\ tpc'[i] # tpc[i]) =>
              tpc'[i] \in {"timer", "getReceipt", "resolved", "rejected"}
        /\ tpc[i] = "rejected" =>
              /\ tpc'[i] = "rejected"
              /\ tOutcome'[i] = tOutcome[i]
              /\ tReceipt'[i] = tReceipt[i]
              /\ tPolled'[i] = tPolled[i]
      ]_vars

\* C35: a confirmed(3) loop that had fetched a receipt was rejected by the
\* transport's failure of the block-number fetch, and the chain has moved on
\* to its last block since.
C35_Witness ==
    /\ tpc[1] = "rejected" /\ tMin[1] = 3
    /\ tOutcome[1] = Str(TransportError)
    /\ Truthy(tReceipt[1])
    /\ head = MaxBlock /\ head - tReceipt[1].blockNumber >= 3

\* C36: the block-number request of an iteration is sent while the receipt
\* request is outstanding: never in the step that takes the receipt's
\* response, and the two are outstanding together.
C36_FetchesConcurrent ==
    [][\A i \in Trackers :
        (tpc[i] # "getBlockNumber" /\ tpc'[i] = "getBlockNumber") =>
            tpc[i] # "getReceipt"]_vars

\* The cache key of a resolution, and whether it ran the on-chain protocol
\* to its end.
KeyOf(r) == <<r.chainId, hashName(r.name, FALSE)>>
RanProtocol(r) == r.pc = "returned" /\ ~r.hit /\ ~isValidAddress(r.name)

\* C37: two resolutions of one name that both missed the cache and ran the
\* protocol have each returned the address their own address lookup
\* reported, and the cache entry of the name, when there is one, holds the
\* address of one of the two; every step that changes an entry is the return
\* of one resolution and writes that resolution's address together with its
\* own expiry, over whatever was there.
C37_ConcurrentResolutions ==
    /\ [](\A p, q \in Resolvers :
            (p # q /\ RanProtocol(rp[p]) /\ RanProtocol(rp[q])
                /\ KeyOf(rp[p]) = KeyOf(rp[q])) =>
               /\ rp[p].result = rp[p].address
               /\ rp[q].result = rp[q].address
               /\ isValidAddress(rp[p].result) /\ rp[p].result # NULL_ADDRESS
               /\ Truthy(rcache[KeyOf(rp[p])]) =>
                    rcache[KeyOf(rp[p])].address
                        \in {rp[p].result, rp[q].result})
    /\ [][\A p \in Resolvers :
            (rp[p].pc = "getTTL" /\ rp'[p].pc = "returned") =>
               /\ \A k \in CacheKeys \ {KeyOf(rp[p])} : rcache'[k] = rcache[k]
               /\ IF Clamp(1000 * rp'[p].ttl.val, rOpts.minTTL, rOpts.maxTTL) > 0
                  THEN rcache'[KeyOf(rp[p])] =
                         [type |-> "object", address |-> rp'[p].result,
                          expires |-> now + Clamp(1000 * rp'[p].ttl.val,
                                                  rOpts.minTTL, rOpts.maxTTL)]
                  ELSE rcache'[KeyOf(rp[p])] = rcache[KeyOf(rp[p])]
        ]_vars

\* C37: two resolutions of ethereum.eth both ran the three lookups, the
\* chain reported different addresses and lifetimes to them, and the entry
\* in the cache is the one the first resolver wrote: its address with its
\* expiry.
C37_Witness ==
    /\ RanProtocol(rp[1]) /\ RanProtocol(rp[2])
    /\ rp[1].name = Name(<<"ethereum", "eth">>) /\ rp[2].name = rp[1].name
    /\ Len(CallsOf(rp[1])) = 3 /\ Len(CallsOf(rp[2])) = 3
    /\ rp[1].result # rp[2].result
    /\ rp[1].ttl = UintWord(10800) /\ rp[2].ttl = UintWord(3600)
    /\ rcache[KeyOf(rp[1])].address = rp[1].result
    /\ rcache[KeyOf(rp[1])].expires = now + 10800000

\* The transaction objects the pipeline itself has sent for the call in
\* hand: those of its eth_call, eth_estimateGas and submission requests.
OwnRequests(t) ==
    {k \in 1 .. Len(t.log) :
        /\ "params" \in DOMAIN t.log[k]
        /\ t.log[k].method \in {"eth_call", "eth_estimateGas",
                                "eth_sendTransaction", "eth_sendRawTransaction"}}
\* The addresses a destination may resolve to: its own checksummed form, or
\* for a name one of the addresses the chain reports.
ResolvedAddresses(to) ==
    IF isValidAddress(to) THEN {toChecksumAddress(to)}
    ELSE {toChecksumAddress(extractBytes(w, 20)) : w \in AddrAnswers}

\* C38: a send, transfer, call or estimateGas given a non-empty `to` carries,
\* in every transaction object it sends, a `to` that is the resolved address
\* of that input, and never fails as having no destination.
C38_DestinationKept ==
    (tx.kind \in {"send", "call", "estimateGas"} /\ Truthy(tx.to)) =>
        /\ tx.error # NoDestinationError
        /\ \A k \in OwnRequests(tx) :
             LET obj == Submitted(tx.log[k]) IN
             /\ Truthy(obj.to)
             /\ obj.to \in ResolvedAddresses(tx.to)

\* C39: a transaction submitted by send carries either a legacy gasPrice or
\* the fee-market fields, never both: under the london rule no gasPrice,
\* under any other rule no maxFeePerGas and no maxPriorityFeePerGas.
C39_OneFeeScheme ==
    \A k \in Submissions(tx) :
        LET s == Submitted(tx.log[k]) IN
        IF tx.common.hardfork = "london"
        THEN IsNil(s.gasPrice)
        ELSE IsNil(s.maxFeePerGas) /\ IsNil(s.maxPriorityFeePerGas)

\* C40: once the promise of the hash has rejected, txId is that rejection,
\* no loop has fetched or ever fetches a receipt or a block number, no loop
\* resolves, a loop that has rejected carries the very error of the hash
\* promise, and every loop waiting for the hash, whether confirmed was
\* called before or after the failure, goes on to reject with it.
C40_SubmissionFailureRejectsAll ==
    /\ [](txHashPromise.state = "rejected" =>
            /\ txId.state = "rejected" /\ txId.value = Str(SubmitError)
            /\ \A i \in Trackers :
                 /\ ~tPolled[i]
                 /\ tpc[i] \in {"off", "idle", "awaitHash", "rejected"}
                 /\ tpc[i] = "rejected" => tOutcome[i] = txId.value)
    /\ \A i \in Trackers :
         (txHashPromise.state = "rejected" /\ tpc[i] = "awaitHash")
            ~> (tpc[i] = "rejected" /\ tOutcome[i] = Str(SubmitError))

\* C40: a confirmed(3) has rejected with the submission's error without a
\* single poll, after blocks were mined.
C40_Witness ==
    /\ txHashPromise.state = "rejected"
    /\ tpc[1] = "rejected" /\ tMin[1] = 3
    /\ tOutcome[1] = Str(SubmitError)
    /\ ~tPolled[1] /\ tReceipt[1] = Undefined
    /\ head = MaxBlock

====
